---- MODULE Spec2Model ----
(***************************************************************************)
(* Model of the Permit.io setup tool: the transport client (api.js), the   *)
(* entity repositories (resources.js, roles.js, abac.js), the reset        *)
(* orchestrator (reset.js) and the preset runner (horaion-setup.js),       *)
(* running as one thread of control against a remote administrative API.   *)
(***************************************************************************)
EXTENDS Integers, Sequences, FiniteSets, TLC

VARIABLES
  remote,   \* the entities the remote service holds, per collection
  call,     \* the transport call in flight: phase, request, timer, clock, result
  op,       \* the operation the operator started last
  run,      \* "idle", "running", "returned" or "threw"
  stack,    \* the functions being executed, innermost last, each with its position
  arg,      \* the argument of the innermost repository call
  ret,      \* the value the last function returned
  todo,     \* the items a loop has still to visit
  pending,  \* the user sets kept for the second loop of deleteConditionSets
  deleted,  \* the counter of deleteSetRules
  log,      \* the requests issued by the operation, in order; overlaps: one was in flight
  report,   \* the lines the preset verification printed per user set
  warned,   \* the keys the preset verification listed in its warning
  opsRun,   \* how many operations were started
  out,      \* the lines the latest logging step of a reset or a verification wrote
  past,     \* the operations a scripted session has completed, with their results
  proc,     \* the process of an entry point: configuration, flags, prompts, exit
  probe     \* the health probe of the policy decision point: phase, timer, answer

vars == <<remote, call, op, run, stack, arg, ret, todo, pending, deleted,
          log, report, warned, opsRun, out, past, proc, probe>>

\* the state outside the operation that runs
outside == <<past, proc, probe>>

\* the state of the operations and of the remote they act on
inside == <<remote, call, op, run, stack, arg, ret, todo, pending, deleted, log, report,
            warned, opsRun, out>>

-----------------------------------------------------------------------------
(* Bounds of the model *)

\* number of operations one behaviour starts
MaxOps == 1
\* granularity of the clock of a call, in milliseconds
TickMs == 30000

\* the number of operations of a session
MaxRuns == 3
\* granularity of the clock of the health probe, in milliseconds
ProbeTickMs == 2500
\* the number of operations run from one interactive menu
MaxRounds == 2

-----------------------------------------------------------------------------
(* Program constants *)

TIMEOUT_MS == 30000

\* setTimeout(() => controller.abort(), 5000) of the health probe
HEALTH_TIMEOUT_MS == 5000

PROTECTED_RESOURCES == <<"__user">>
\* a list of protected roles that misses viewer
ProtectedRolesWithoutViewer == <<"admin">>

PROTECTED_ROLES == <<"admin", "viewer">>
DEFAULT_TENANT == "default"
DEFAULT_USER_ATTRIBUTE == [key |-> "department", type |-> "string"]
CONDITION_SET_TYPES == [USER_SET |-> "userset", RESOURCE_SET |-> "resourceset"]

\* Array.prototype.includes on an array of keys
Includes(arr, x) == \E i \in 1..Len(arr) : arr[i] = x

-----------------------------------------------------------------------------
(* Strings whose characters matter (String.prototype.includes) *)

Chars(s) ==
  CASE s = "user.groups"     -> <<"u","s","e","r",".","g","r","o","u","p","s">>
    [] s = "subject.groups"  -> <<"s","u","b","j","e","c","t",".","g","r","o","u","p","s">>
    [] s = "user.department" -> <<"u","s","e","r",".","d","e","p","a","r","t","m","e","n","t">>
    [] s = "resource.owner"  -> <<"r","e","s","o","u","r","c","e",".","o","w","n","e","r">>
    [] s = "allOf"           -> <<"a","l","l","O","f">>
    [] s = "array_contains"  -> <<"a","r","r","a","y","_","c","o","n","t","a","i","n","s">>
    [] s = "equals"          -> <<"e","q","u","a","l","s">>
    [] s = "staff"           -> <<"s","t","a","f","f">>
    [] s = "sales"           -> <<"s","a","l","e","s">>
    [] s = "healthy"         -> <<"h","e","a","l","t","h","y">>
    [] s = "unhealthy"       -> <<"u","n","h","e","a","l","t","h","y">>
    [] s = "ok"              -> <<"o","k">>
    [] s = "OK"              -> <<"O","K">>
    [] s = "broken"          -> <<"b","r","o","k","e","n">>
    [] s = "down"            -> <<"d","o","w","n">>
    [] s = ""                -> <<>>

\* haystack.includes(needle) on character sequences
StrIncludes(hay, needle) ==
  \E i \in 0..(Len(hay) - Len(needle)) :
     \A j \in 1..Len(needle) : hay[i + j] = needle[j]

RECURSIVE JoinPreds(_)
\* JSON.stringify of one predicate {"<path>":{"<operator>":"<value>"}}
StringifyPred(p) ==
  <<"{", "\"">> \o Chars(p.path) \o <<"\"", ":", "{", "\"">> \o Chars(p.operator)
     \o <<"\"", ":", "\"">> \o Chars(p.value) \o <<"\"", "}", "}">>

JoinPreds(ps) ==
  IF Len(ps) = 0 THEN <<>>
  ELSE IF Len(ps) = 1 THEN StringifyPred(ps[1])
  ELSE StringifyPred(ps[1]) \o <<",">> \o JoinPreds(Tail(ps))

\* JSON.stringify(us.conditions) for a condition tree { allOf: [ ... ] }
JSONstringify(conditions) ==
  <<"{", "\"">> \o Chars("allOf") \o <<"\"", ":", "[">>
     \o JoinPreds(conditions.allOf) \o <<"]", "}">>

-----------------------------------------------------------------------------
(* The remote service: entities per project and environment *)

Pred(path, operator, value) == [path |-> path, operator |-> operator, value |-> value]

UserSetGood  == [key |-> "staff", type |-> "userset",
                 conditions |-> [allOf |-> <<Pred("user.groups", "array_contains", "staff")>>]]
UserSetWrong == [key |-> "legacy", type |-> "userset",
                 conditions |-> [allOf |-> <<Pred("subject.groups", "array_contains", "staff")>>]]
UserSetBoth  == [key |-> "mixed", type |-> "userset",
                 conditions |-> [allOf |-> <<Pred("user.groups", "array_contains", "staff"),
                                             Pred("subject.groups", "array_contains", "sales")>>]]
UserSetOther == [key |-> "dept", type |-> "userset",
                 conditions |-> [allOf |-> <<Pred("user.department", "equals", "sales")>>]]
ResourceSet  == [key |-> "docs", type |-> "resourceset",
                 conditions |-> [allOf |-> <<Pred("resource.owner", "equals", "staff")>>]]

\* the order in which the remote lists each collection
UserResource == [key |-> "__user", actions |-> {}]
DocResource  == [key |-> "doc", actions |-> {"read"}]
ResourceOrder == <<UserResource, DocResource>>
RoleOrder     == <<[key |-> "admin"], [key |-> "editor"], [key |-> "viewer"]>>
AttrOrder     == <<[key |-> "department"], [key |-> "team"]>>
CondSetOrder  == <<UserSetGood, ResourceSet, UserSetWrong, UserSetBoth, UserSetOther>>
RuleOrder     == <<[user_set |-> "dept", resource_set |-> "docs", permission |-> "doc:read"],
                   [user_set |-> "staff", resource_set |-> "docs", permission |-> "doc:read"]>>
TenantOrder   == <<[key |-> "default"]>>

Kinds == {"resources", "roles", "attributes", "condition_sets", "set_rules", "tenants"}

OrderOf(kind) ==
  CASE kind = "resources"      -> ResourceOrder
    [] kind = "roles"          -> RoleOrder
    [] kind = "attributes"     -> AttrOrder
    [] kind = "condition_sets" -> CondSetOrder
    [] kind = "set_rules"      -> RuleOrder
    [] kind = "tenants"        -> TenantOrder

Range(s) == {s[i] : i \in 1..Len(s)}

\* what identifies an entity: its key, or the whole triple of a set rule
KeyOf(kind, e) ==
  IF kind = "set_rules" THEN <<e.user_set, e.resource_set, e.permission>> ELSE e.key

HasKey(r, kind, k) == \E e \in r[kind] : KeyOf(kind, e) = k

\* the JSON array a list endpoint answers with
Listing(r, kind) ==
  LET present == SelectSeq(OrderOf(kind), LAMBDA u : HasKey(r, kind, KeyOf(kind, u)))
  IN  [i \in 1..Len(present) |->
         CHOOSE e \in r[kind] : KeyOf(kind, e) = KeyOf(kind, present[i])]

RemoteOf(res, roles, attrs, csets, rules, tenants) ==
  [resources |-> res, roles |-> roles, attributes |-> attrs,
   condition_sets |-> csets, set_rules |-> rules, tenants |-> tenants]

EmptyRemote == RemoteOf({}, {}, {}, {}, {}, {})

FullRemote ==
  RemoteOf(Range(ResourceOrder), Range(RoleOrder), {},
           {UserSetOther, ResourceSet}, {RuleOrder[1]}, Range(TenantOrder))

LegacyRemote ==
  RemoteOf({UserResource}, {[key |-> "admin"], [key |-> "viewer"]},
           {[key |-> "department"], [key |-> "team"]},
           {UserSetGood, UserSetWrong, UserSetBoth}, {RuleOrder[2]}, {})

InitRemotes == {EmptyRemote, FullRemote, LegacyRemote}

-----------------------------------------------------------------------------
(* Requests and the remote's reaction to them *)

NoKey == [none |-> TRUE]
NoBody == [none |-> TRUE]

Request(method, kind, key, body) ==
  [method |-> method, kind |-> kind, key |-> key, body |-> body]

\* the statuses the remote answers with
Statuses == {200, 204, 404, 409, 500}

\* the state of the remote after it accepted a request with a 2xx status
Apply(req, r) ==
  CASE req.method = "POST" ->
         [r EXCEPT ![req.kind] =
            {e \in @ : KeyOf(req.kind, e) # KeyOf(req.kind, req.body)} \cup {req.body}]
    [] req.method = "PATCH" ->
         [r EXCEPT ![req.kind] =
            {IF e.key = req.key.key THEN [e EXCEPT !.conditions = req.body.conditions] ELSE e
               : e \in @}]
    [] req.method = "DELETE" ->
         [r EXCEPT ![req.kind] =
            {e \in @ : KeyOf(req.kind, e) #
                         KeyOf(req.kind, IF req.kind = "set_rules" THEN req.body ELSE req.key)}]
    [] OTHER -> r

\* JSON values: null, an array of entities, or an object that is no array
Null == [kind |-> "null", items |-> <<>>]
Array(items) == [kind |-> "array", items |-> items]
Object == [kind |-> "object", items |-> <<>>]

\* response bodies: empty, text that is not JSON, or the text of a JSON value
EmptyBody == [kind |-> "empty", value |-> Null]
TextBody == [kind |-> "text", value |-> Null]
JsonBody(v) == [kind |-> "json", value |-> v]

\* the bodies the remote may send with a status
Bodies(req, status, r) ==
  {EmptyBody, TextBody, JsonBody(Object)} \cup
  (IF req.method = "GET" /\ req.key = NoKey /\ status \in 200..299
     THEN {JsonBody(Array(Listing(r, req.kind)))} ELSE {})

-----------------------------------------------------------------------------
(* api.js: permitApi *)

\* a test for the status 200 in place of response.ok
ResponseOkOnly200(status) == status = 200

\* response.ok
ResponseOk(status) == status >= 200 /\ status <= 299

\* how an evaluation completes: with a value, or by throwing an error of a name
Return(v) == [threw |-> FALSE, name |-> "", value |-> v]
Throw(name) == [threw |-> TRUE, name |-> name, value |-> [kind |-> "none"]]

\* JSON.parse: throws a SyntaxError on text that is not JSON
JSONparse(body) == IF body.kind = "json" THEN Return(body.value) ELSE Throw("SyntaxError")

\* lines 36-41: body ? JSON.parse(body) : null, inside try { } catch { }
ParseBody(body) ==
  IF body.kind = "empty" THEN Null
  ELSE LET c == JSONparse(body) IN IF c.threw THEN Null ELSE c.value

Result(success, data, status, exists, error, has) ==
  [success |-> success, data |-> data, status |-> status, exists |-> exists,
   error |-> error, has |-> has]

NoResult == Result(FALSE, Null, 0, FALSE, "", {})

\* a client for which a conflict is a failure like any other
ClassifyWithoutConflict(status, body) ==
  Result(ResponseOk(status), ParseBody(body), status, FALSE, "", {"success", "data", "status"})

\* the three return statements of the try block
Classify(status, body) ==
  IF ResponseOk(status)
    THEN Result(TRUE, ParseBody(body), status, FALSE, "", {"success", "data", "status"})
  ELSE IF status = 409
    THEN Result(TRUE, ParseBody(body), status, TRUE, "", {"success", "data", "status", "exists"})
  ELSE Result(FALSE, ParseBody(body), status, FALSE, "", {"success", "data", "status"})

\* error.message of what fetch or response.text() rejected with
MessageOf(name) ==
  IF name = "AbortError" THEN "This operation was aborted" ELSE "fetch failed"

\* the catch block: every rejection becomes a failed result
CatchError(name) == Result(FALSE, Null, 0, FALSE, MessageOf(name), {"success", "error"})

\* result.status === s, where an absent field is undefined
StatusIs(result, s) == "status" \in result.has /\ result.status = s

\* !result.data, where an absent field is undefined
NoData(result) == "data" \notin result.has \/ result.data.kind = "null"

NoOutcome == [kind |-> "none", status |-> 0, body |-> EmptyBody]

IdleCall ==
  [phase |-> "idle", req |-> Request("", "", NoKey, NoBody), fn |-> "", timer |-> FALSE,
   elapsed |-> 0, status |-> 0, outcome |-> NoOutcome, result |-> NoResult, threw |-> FALSE]

\* a request body JSON.stringify throws on
Circular == [circular |-> TRUE]

Serializable(body) == body # Circular

\* a body of permitApi without its catch block
TryCatchRethrows(c) == c

\* the try/catch around the body of permitApi: what leaves the function
TryCatch(c) == IF c.threw THEN Return(CatchError(c.name)) ELSE c

\* a call that never arms its timer
permitApiWithoutTimer(method, kind, key, body, fn) ==
  IF Serializable(body)
    THEN /\ call' = [IdleCall EXCEPT !.phase = "fetch", !.fn = fn, !.timer = FALSE,
                                     !.req = Request(method, kind, key, body)]
         /\ log' = Append(log, [method |-> method, kind |-> kind, key |-> key,
                                 body |-> body, fn |-> fn,
                                 overlaps |-> call.phase \in {"fetch", "text"}])
    ELSE /\ call' = [IdleCall EXCEPT !.phase = "done", !.fn = fn,
                                     !.req = Request(method, kind, key, body),
                                     !.outcome = [NoOutcome EXCEPT !.kind = "unsent"],
                                     !.result = CatchError("TypeError")]
         /\ UNCHANGED log

\* the call up to the await of fetch: the timer is armed, the body serialized and
\* the request sent; a body that cannot be serialized throws before anything is sent
permitApi(method, kind, key, body, fn) ==
  IF Serializable(body)
    THEN /\ call' = [IdleCall EXCEPT !.phase = "fetch", !.fn = fn, !.timer = TRUE,
                                     !.req = Request(method, kind, key, body)]
         /\ log' = Append(log, [method |-> method, kind |-> kind, key |-> key,
                                 body |-> body, fn |-> fn,
                                 overlaps |-> call.phase \in {"fetch", "text"}])
    ELSE LET c == TryCatch(Throw("TypeError")) IN
         /\ call' = [IdleCall EXCEPT !.phase = "done", !.fn = fn,
                                     !.req = Request(method, kind, key, body),
                                     !.outcome = [NoOutcome EXCEPT !.kind = "unsent"],
                                     !.result = IF c.threw THEN NoResult ELSE c.value,
                                     !.threw = c.threw]
         /\ UNCHANGED log

\* the functions whose awaits sit inside a try block: the sections of verifySetup and the
\* body of the main function of each entry point
HasHandler(f) == f.fn \in {"verifySetup", "main", "presetMain"}

\* the stack after an error left a function: the innermost function with a handler
\* continues in its catch block; without one the error leaves the operation
Unwind(stk) ==
  LET handlers == {i \in 1..Len(stk) : HasHandler(stk[i])} IN
  IF handlers = {} THEN <<>>
  ELSE LET h == CHOOSE i \in handlers : \A j \in handlers : j <= i
       IN  [SubSeq(stk, 1, h) EXCEPT ![h].pc = "caught"]

\* the call ends: with a result, or with an error that leaves permitApi
Settle(outcome, completion) ==
  LET c == TryCatch(completion) IN
  /\ call' = [call EXCEPT !.phase = "done", !.timer = FALSE, !.outcome = outcome,
                          !.result = IF c.threw THEN NoResult ELSE c.value,
                          !.threw = c.threw]
  /\ stack' = IF c.threw THEN Unwind(stack) ELSE stack
  /\ run' = IF c.threw /\ Unwind(stack) = <<>> THEN "threw" ELSE run
  /\ UNCHANGED <<remote, op, arg, ret, todo, pending, deleted, log, report, warned, opsRun, out, outside>>

\* fetch resolves with the response headers of status s; clearTimeout(timeoutId)
fetchAnswers(s) ==
  /\ call.phase = "fetch"
  /\ call.elapsed < TIMEOUT_MS
  /\ call' = [call EXCEPT !.phase = "text", !.timer = FALSE, !.status = s]
  /\ remote' = IF ResponseOk(s) THEN Apply(call.req, remote) ELSE remote
  /\ UNCHANGED <<op, run, stack, arg, ret, todo, pending, deleted, log, report, warned,
                 opsRun, out, outside>>

\* the remote answers with any of its statuses
fetchResolves == \E s \in Statuses : fetchAnswers(s)

\* fetch rejects with a network error
fetchRejects ==
  /\ call.phase = "fetch"
  /\ call.elapsed < TIMEOUT_MS
  /\ Settle([NoOutcome EXCEPT !.kind = "network"], Throw("TypeError"))

\* the timer set for TIMEOUT_MS fires: controller.abort() rejects fetch with AbortError
timerFires ==
  /\ call.phase = "fetch"
  /\ call.timer
  /\ call.elapsed >= TIMEOUT_MS
  /\ Settle([NoOutcome EXCEPT !.kind = "abort"], Throw("AbortError"))

\* response.text() resolves with the body b
textArrives(b) ==
  /\ call.phase = "text"
  /\ Settle([kind |-> "response", status |-> call.status, body |-> b],
            Return(Classify(call.status, b)))

\* the remote sends any body it may send with the status
textResolves == \E b \in Bodies(call.req, call.status, remote) : textArrives(b)

\* response.text() rejects: the connection broke while the body was read
textRejects ==
  /\ call.phase = "text"
  /\ Settle([NoOutcome EXCEPT !.kind = "bodyfail", !.status = call.status],
            Throw("TypeError"))

\* time passes while the call waits for the remote; only the armed timer reads the clock
Tick ==
  /\ call.phase \in {"fetch", "text"}
  /\ call.timer
  /\ call.elapsed < TIMEOUT_MS
  /\ call' = [call EXCEPT !.elapsed = @ + TickMs]
  /\ UNCHANGED <<remote, op, run, stack, arg, ret, todo, pending, deleted, log, report,
                 warned, opsRun, out, outside>>

\* a function that goes on without awaiting the call it made
ReturnedWithoutAwait(fn) == call.fn = fn /\ ~call.threw

\* the awaited call has returned to the function that made it
Returned(fn) == call.phase = "done" /\ ~call.threw /\ call.fn = fn

-----------------------------------------------------------------------------
(* The thread of control: a stack of functions, each at a position *)

Frame(fn, pc, ix) == [fn |-> fn, pc |-> pc, ix |-> ix]

Top == stack[Len(stack)]

At(fn, pc) == run = "running" /\ Len(stack) > 0 /\ Top.fn = fn /\ Top.pc = pc

Goto(pc) == stack' = [stack EXCEPT ![Len(stack)].pc = pc]

\* values a function returns: a boolean, a JSON value, or nothing
RetBool(b) == [kind |-> "bool", bool |-> b, value |-> Null]
RetValue(v) == [kind |-> "value", bool |-> FALSE, value |-> v]
RetVoid == [kind |-> "void", bool |-> FALSE, value |-> Null]

\* return v to the caller; the operation is over when the last function returns
ReturnWith(v) ==
  /\ stack' = SubSeq(stack, 1, Len(stack) - 1)
  /\ ret' = v
  /\ run' = IF Len(stack) = 1 THEN "returned" ELSE run

\* the result of the awaited call is taken; the call of the statement the operation
\* ends with stays on record
Consume == call' = IF Len(stack) = 1 THEN call ELSE IdleCall

\* await fn(a), to continue at position pc
Await(fn, a, pc) ==
  /\ stack' = Append([stack EXCEPT ![Len(stack)].pc = pc], Frame(fn, "start", 1))
  /\ arg' = a

\* the functions that wait for the innermost one
Callers == SubSeq(stack, 1, Len(stack) - 1)

\* an error (a TypeError on null or on a value that is no array) leaves the function
Raise ==
  /\ stack' = Unwind(Callers)
  /\ run' = IF Unwind(Callers) = <<>> THEN "threw" ELSE run

-----------------------------------------------------------------------------
(* resources.js, roles.js, abac.js: the entity repositories *)

\* a create that takes the conflict for a failure
CreateValueNotExists(result) == result.success /\ ~result.exists

\* if (result.success) return true; else return false
CreateValue(result) == result.success

\* a create function: one POST, true when the result says success
Create(fn, kind, body) ==
  \/ /\ At(fn, "start")
     /\ permitApi("POST", kind, NoKey, body, fn)
     /\ Goto("await")
     /\ UNCHANGED <<remote, op, run, arg, ret, todo, pending, deleted, report, warned, opsRun, out, outside>>
  \/ /\ At(fn, "await") /\ Returned(fn)
     /\ ReturnWith(RetBool(CreateValue(call.result)))
     /\ Consume
     /\ UNCHANGED <<remote, op, arg, todo, pending, deleted, log, report, warned, opsRun, out, outside>>

createResource == Create("createResource", "resources", arg)

createRole == Create("createRole", "roles", arg)

createUserAttribute == Create("createUserAttribute", "attributes", [key |-> arg.key])

createUserSet ==
  Create("createUserSet", "condition_sets",
         [key |-> arg.key, type |-> CONDITION_SET_TYPES.USER_SET,
          conditions |-> arg.conditions])

createResourceSet ==
  Create("createResourceSet", "condition_sets",
         [key |-> arg.key, type |-> CONDITION_SET_TYPES.RESOURCE_SET,
          conditions |-> arg.conditions])

createSetRule ==
  Create("createSetRule", "set_rules",
         [user_set |-> arg.user_set, resource_set |-> arg.resource_set,
          permission |-> arg.permission])

\* result.success ? result.data : []
ListValue(result) == IF result.success THEN result.data ELSE Array(<<>>)

\* a list function whose request for the roles is the DELETE of a role
ListDeletingRole(fn, kind) ==
  \/ /\ At(fn, "start")
     /\ IF kind = "roles"
          THEN permitApi("DELETE", kind, [key |-> "editor"], NoBody, fn)
          ELSE permitApi("GET", kind, NoKey, NoBody, fn)
     /\ Goto("await")
     /\ UNCHANGED <<remote, op, run, arg, ret, todo, pending, deleted, report, warned,
                    opsRun, out, outside>>
  \/ /\ At(fn, "await") /\ Returned(fn)
     /\ ReturnWith(RetValue(ListValue(call.result)))
     /\ Consume
     /\ UNCHANGED <<remote, op, arg, todo, pending, deleted, log, report, warned, opsRun,
                    out, outside>>

\* a list function: one GET on the collection
List(fn, kind) ==
  \/ /\ At(fn, "start")
     /\ permitApi("GET", kind, NoKey, NoBody, fn)
     /\ Goto("await")
     /\ UNCHANGED <<remote, op, run, arg, ret, todo, pending, deleted, report, warned, opsRun, out, outside>>
  \/ /\ At(fn, "await") /\ Returned(fn)
     /\ ReturnWith(RetValue(ListValue(call.result)))
     /\ Consume
     /\ UNCHANGED <<remote, op, arg, todo, pending, deleted, log, report, warned, opsRun, out, outside>>

listResources == List("listResources", "resources")

listRoles == List("listRoles", "roles")

listUserAttributes == List("listUserAttributes", "attributes")

listConditionSets == List("listConditionSets", "condition_sets")

listSetRules == List("listSetRules", "set_rules")

\* a delete that forgets the 404
DeleteValueSuccessOnly(result) == result.success

\* result.success || result.status === 404
DeleteValue(result) == result.success \/ StatusIs(result, 404)

\* a delete function: one DELETE on the key
Delete(fn, kind) ==
  \/ /\ At(fn, "start")
     /\ permitApi("DELETE", kind, [key |-> arg.key], NoBody, fn)
     /\ Goto("await")
     /\ UNCHANGED <<remote, op, run, arg, ret, todo, pending, deleted, report, warned, opsRun, out, outside>>
  \/ /\ At(fn, "await") /\ Returned(fn)
     /\ ReturnWith(RetBool(DeleteValue(call.result)))
     /\ Consume
     /\ UNCHANGED <<remote, op, arg, todo, pending, deleted, log, report, warned, opsRun, out, outside>>

deleteResource == Delete("deleteResource", "resources")

deleteRole == Delete("deleteRole", "roles")

-----------------------------------------------------------------------------
(* reset.js: the stages of a reset *)

Filter(items, type) == SelectSeq(items, LAMBDA cs : cs.type = type)

\* the outcome of the loop header of a stage on the value it listed
\*   "none": !list || list.length === 0;  "loop": an array to iterate;
\*   "throw": a value that is no array reaches for...of or .filter
Iterate(v) ==
  IF v.kind = "null" THEN "none"
  ELSE IF v.kind = "array" THEN (IF Len(v.items) = 0 THEN "none" ELSE "loop")
  ELSE "throw"

\* a line of the log: logger.info, logger.success or logger.warning of a function
Line(level, fn, what, key) == [level |-> level, fn |-> fn, what |-> what, key |-> key, n |-> 0]

\* the stage summary of deleteSetRules: `Deleted ${deleted} set rules`
Counted(fn, n) == [level |-> "success", fn |-> fn, what |-> "summary", key |-> "", n |-> n]

\* an outcome that knows no "not found": every delete without success is a failure
OutcomeLineWithoutNotFound(fn, result, key) ==
  IF result.success THEN Line("success", fn, "deleted", key)
  ELSE Line("warning", fn, "failed", key)

\* if (result.success) success(deleted) else if (result.status === 404) info(not found)
\* else warning(failed)
OutcomeLine(fn, result, key) ==
  IF result.success THEN Line("success", fn, "deleted", key)
  ELSE IF StatusIs(result, 404) THEN Line("info", fn, "notFound", key)
  ELSE Line("warning", fn, "failed", key)

\* if (success) success(deleted) else warning(failed), on the boolean of deleteResource
BoolOutcomeLine(fn, success, key) ==
  IF success THEN Line("success", fn, "deleted", key) ELSE Line("warning", fn, "failed", key)

deleteSetRules ==
  \/ /\ At("deleteSetRules", "start")
     /\ permitApi("GET", "set_rules", NoKey, NoBody, "deleteSetRules")
     /\ Goto("listed")
     /\ out' = <<Line("info", "deleteSetRules", "begin", "")>>
     /\ UNCHANGED <<remote, op, run, arg, ret, todo, pending, deleted, report, warned,
                    opsRun, outside>>
  \/ /\ At("deleteSetRules", "listed") /\ Returned("deleteSetRules")
     /\ call' = IdleCall
     /\ IF ~call.result.success \/ NoData(call.result)
          THEN /\ ReturnWith(RetVoid)
               /\ out' = <<Line("warning", "deleteSetRules", "notListed", "")>>
               /\ UNCHANGED <<todo, deleted>>
        ELSE IF call.result.data.kind = "array"
          THEN /\ todo' = call.result.data.items
               /\ deleted' = 0
               /\ Goto("loop")
               /\ UNCHANGED <<run, ret, out>>
        ELSE Raise /\ UNCHANGED <<ret, todo, deleted, out>>
     /\ UNCHANGED <<remote, op, arg, pending, log, report, warned, opsRun, outside>>
  \/ /\ At("deleteSetRules", "loop")
     /\ IF todo = <<>>
          THEN /\ ReturnWith(RetVoid)
               /\ out' = <<Counted("deleteSetRules", deleted)>>
               /\ UNCHANGED <<call, log>>
          ELSE /\ permitApi("DELETE", "set_rules", NoKey,
                            [user_set |-> Head(todo).user_set,
                             resource_set |-> Head(todo).resource_set,
                             permission |-> Head(todo).permission], "deleteSetRules")
               /\ Goto("deleting")
               /\ UNCHANGED <<run, ret, out>>
     /\ UNCHANGED <<remote, op, arg, todo, pending, deleted, report, warned, opsRun, outside>>
  \/ /\ At("deleteSetRules", "deleting") /\ Returned("deleteSetRules")
     /\ deleted' = IF call.result.success THEN deleted + 1 ELSE deleted
     /\ todo' = Tail(todo)
     /\ Goto("loop")
     /\ call' = IdleCall
     /\ UNCHANGED <<remote, op, run, arg, ret, pending, log, report, warned, opsRun, out,
                    outside>>

deleteConditionSets ==
  \/ /\ At("deleteConditionSets", "start")
     /\ Await("listConditionSets", NoKey, "listed")
     /\ out' = <<Line("info", "deleteConditionSets", "begin", "")>>
     /\ UNCHANGED <<remote, call, op, run, ret, todo, pending, deleted, log, report, warned,
                    opsRun, outside>>
  \/ /\ At("deleteConditionSets", "listed")
     /\ CASE Iterate(ret.value) = "none" ->
               /\ ReturnWith(RetVoid)
               /\ out' = <<Line("info", "deleteConditionSets", "nothing", "")>>
               /\ UNCHANGED <<todo, pending>>
          [] Iterate(ret.value) = "loop" ->
               /\ todo' = Filter(ret.value.items, CONDITION_SET_TYPES.RESOURCE_SET)
               /\ pending' = Filter(ret.value.items, CONDITION_SET_TYPES.USER_SET)
               /\ Goto("resourceSets")
               /\ UNCHANGED <<run, ret, out>>
          [] OTHER -> Raise /\ UNCHANGED <<ret, todo, pending, out>>
     /\ UNCHANGED <<remote, call, op, arg, deleted, log, report, warned, opsRun, outside>>
  \/ /\ At("deleteConditionSets", "resourceSets")
     /\ IF todo = <<>>
          THEN /\ todo' = pending
               /\ pending' = <<>>
               /\ Goto("userSets")
               /\ UNCHANGED <<call, log, out>>
          ELSE /\ permitApi("DELETE", "condition_sets", [key |-> Head(todo).key], NoBody,
                            "deleteConditionSets")
               /\ Goto("deletingResourceSet")
               /\ out' = <<Line("info", "deleteConditionSets", "deleting", Head(todo).key)>>
               /\ UNCHANGED <<todo, pending>>
     /\ UNCHANGED <<remote, op, run, arg, ret, deleted, report, warned, opsRun, outside>>
  \/ /\ At("deleteConditionSets", "deletingResourceSet") /\ Returned("deleteConditionSets")
     /\ out' = <<OutcomeLine("deleteConditionSets", call.result, Head(todo).key)>>
     /\ todo' = Tail(todo)
     /\ Goto("resourceSets")
     /\ call' = IdleCall
     /\ UNCHANGED <<remote, op, run, arg, ret, pending, deleted, log, report, warned, opsRun,
                    outside>>
  \/ /\ At("deleteConditionSets", "userSets")
     /\ IF todo = <<>>
          THEN /\ ReturnWith(RetVoid)
               /\ out' = <<Line("success", "deleteConditionSets", "end", "")>>
               /\ UNCHANGED <<call, log>>
          ELSE /\ permitApi("DELETE", "condition_sets", [key |-> Head(todo).key], NoBody,
                            "deleteConditionSets")
               /\ Goto("deletingUserSet")
               /\ out' = <<Line("info", "deleteConditionSets", "deleting", Head(todo).key)>>
               /\ UNCHANGED <<run, ret>>
     /\ UNCHANGED <<remote, op, arg, todo, pending, deleted, report, warned, opsRun, outside>>
  \/ /\ At("deleteConditionSets", "deletingUserSet") /\ Returned("deleteConditionSets")
     /\ out' = <<OutcomeLine("deleteConditionSets", call.result, Head(todo).key)>>
     /\ todo' = Tail(todo)
     /\ Goto("userSets")
     /\ call' = IdleCall
     /\ UNCHANGED <<remote, op, run, arg, ret, pending, deleted, log, report, warned, opsRun,
                    outside>>

\* the lines around the single DELETE: deleteUserAttributes names the key and closes with
\* a success line, deleteDefaultTenant logs its outcome only
FixedBegin(fn, key) ==
  IF fn = "deleteUserAttributes"
    THEN <<Line("info", fn, "begin", ""), Line("info", fn, "deleting", key)>>
    ELSE <<Line("info", fn, "begin", "")>>

FixedEnd(fn, result, key) ==
  IF fn = "deleteUserAttributes"
    THEN <<OutcomeLine(fn, result, key), Line("success", fn, "end", "")>>
    ELSE <<OutcomeLine(fn, result, key)>>

\* a stage of one DELETE on a fixed key
DeleteFixed(fn, kind, key) ==
  \/ /\ At(fn, "start")
     /\ permitApi("DELETE", kind, [key |-> key], NoBody, fn)
     /\ Goto("deleting")
     /\ out' = FixedBegin(fn, key)
     /\ UNCHANGED <<remote, op, run, arg, ret, todo, pending, deleted, report, warned,
                    opsRun, outside>>
  \/ /\ At(fn, "deleting") /\ Returned(fn)
     /\ ReturnWith(RetVoid)
     /\ Consume
     /\ out' = FixedEnd(fn, call.result, key)
     /\ UNCHANGED <<remote, op, arg, todo, pending, deleted, log, report, warned, opsRun,
                    outside>>

\* a stage that deletes the other attribute the remote may hold
deleteUserAttributesOfTeam == DeleteFixed("deleteUserAttributes", "attributes", "team")

deleteUserAttributes ==
  DeleteFixed("deleteUserAttributes", "attributes", DEFAULT_USER_ATTRIBUTE.key)

deleteDefaultTenant == DeleteFixed("deleteDefaultTenant", "tenants", DEFAULT_TENANT)

deleteRoles ==
  \/ /\ At("deleteRoles", "start")
     /\ Await("listRoles", NoKey, "listed")
     /\ out' = <<Line("info", "deleteRoles", "begin", "")>>
     /\ UNCHANGED <<remote, call, op, run, ret, todo, pending, deleted, log, report, warned,
                    opsRun, outside>>
  \/ /\ At("deleteRoles", "listed")
     /\ CASE Iterate(ret.value) = "none" ->
               /\ ReturnWith(RetVoid)
               /\ out' = <<Line("info", "deleteRoles", "nothing", "")>>
               /\ UNCHANGED todo
          [] Iterate(ret.value) = "loop" ->
               todo' = ret.value.items /\ Goto("loop") /\ UNCHANGED <<run, ret, out>>
          [] OTHER -> Raise /\ UNCHANGED <<ret, todo, out>>
     /\ UNCHANGED <<remote, call, op, arg, pending, deleted, log, report, warned, opsRun,
                    outside>>
  \/ /\ At("deleteRoles", "loop")
     /\ IF todo = <<>>
          THEN /\ ReturnWith(RetVoid)
               /\ out' = <<Line("success", "deleteRoles", "end", "")>>
               /\ UNCHANGED <<call, todo, log>>
        ELSE IF Includes(PROTECTED_ROLES, Head(todo).key)
          THEN /\ todo' = Tail(todo)
               /\ out' = <<Line("info", "deleteRoles", "skipping", Head(todo).key)>>
               /\ UNCHANGED <<call, run, stack, ret, log>>
        ELSE /\ permitApi("DELETE", "roles", [key |-> Head(todo).key], NoBody, "deleteRoles")
             /\ Goto("deleting")
             /\ out' = <<Line("info", "deleteRoles", "deleting", Head(todo).key)>>
             /\ UNCHANGED <<run, ret, todo>>
     /\ UNCHANGED <<remote, op, arg, pending, deleted, report, warned, opsRun, outside>>
  \/ /\ At("deleteRoles", "deleting") /\ Returned("deleteRoles")
     /\ out' = <<OutcomeLine("deleteRoles", call.result, Head(todo).key)>>
     /\ todo' = Tail(todo)
     /\ Goto("loop")
     /\ call' = IdleCall
     /\ UNCHANGED <<remote, op, run, arg, ret, pending, deleted, log, report, warned, opsRun,
                    outside>>

deleteResources ==
  \/ /\ At("deleteResources", "start")
     /\ Await("listResources", NoKey, "listed")
     /\ out' = <<Line("info", "deleteResources", "begin", "")>>
     /\ UNCHANGED <<remote, call, op, run, ret, todo, pending, deleted, log, report, warned,
                    opsRun, outside>>
  \/ /\ At("deleteResources", "listed")
     /\ CASE Iterate(ret.value) = "none" ->
               /\ ReturnWith(RetVoid)
               /\ out' = <<Line("info", "deleteResources", "nothing", "")>>
               /\ UNCHANGED todo
          [] Iterate(ret.value) = "loop" ->
               todo' = ret.value.items /\ Goto("loop") /\ UNCHANGED <<run, ret, out>>
          [] OTHER -> Raise /\ UNCHANGED <<ret, todo, out>>
     /\ UNCHANGED <<remote, call, op, arg, pending, deleted, log, report, warned, opsRun,
                    outside>>
  \/ /\ At("deleteResources", "loop")
     /\ IF todo = <<>>
          THEN /\ ReturnWith(RetVoid)
               /\ out' = <<Line("success", "deleteResources", "end", "")>>
               /\ UNCHANGED <<arg, todo>>
        ELSE IF Includes(PROTECTED_RESOURCES, Head(todo).key)
          THEN /\ todo' = Tail(todo)
               /\ out' = <<Line("info", "deleteResources", "skipping", Head(todo).key)>>
               /\ UNCHANGED <<run, stack, arg, ret>>
        ELSE /\ Await("deleteResource", [key |-> Head(todo).key], "deleting")
             /\ out' = <<Line("info", "deleteResources", "deleting", Head(todo).key)>>
             /\ UNCHANGED <<run, ret, todo>>
     /\ UNCHANGED <<remote, call, op, pending, deleted, log, report, warned, opsRun, outside>>
  \/ /\ At("deleteResources", "deleting")
     /\ out' = <<BoolOutcomeLine("deleteResources", ret.bool, Head(todo).key)>>
     /\ todo' = Tail(todo)
     /\ Goto("loop")
     /\ UNCHANGED <<remote, call, op, run, arg, ret, pending, deleted, log, report, warned,
                    opsRun, outside>>

\* a full reset that deletes the condition sets before the set rules
StagesSetsBeforeRules(fn) ==
  CASE fn = "resetAll" ->
         <<"deleteConditionSets", "deleteSetRules", "deleteUserAttributes", "deleteRoles",
           "deleteResources", "deleteDefaultTenant">>
    [] fn = "resetRbac" -> <<"deleteRoles", "deleteResources">>
    [] fn = "resetAbac" -> <<"deleteSetRules", "deleteConditionSets", "deleteUserAttributes">>
    [] fn = "resetResources" -> <<"deleteResources">>
    [] fn = "resetRoles" -> <<"deleteRoles">>

\* a full reset that deletes the resources before the condition sets
StagesResourcesEarly(fn) ==
  CASE fn = "resetAll" ->
         <<"deleteSetRules", "deleteResources", "deleteConditionSets",
           "deleteUserAttributes", "deleteRoles", "deleteDefaultTenant">>
    [] fn = "resetRbac" -> <<"deleteRoles", "deleteResources">>
    [] fn = "resetAbac" -> <<"deleteSetRules", "deleteConditionSets", "deleteUserAttributes">>
    [] fn = "resetResources" -> <<"deleteResources">>
    [] fn = "resetRoles" -> <<"deleteRoles">>

\* an ABAC reset that goes on to the roles
StagesAbacWithRoles(fn) ==
  CASE fn = "resetAll" ->
         <<"deleteSetRules", "deleteConditionSets", "deleteUserAttributes", "deleteRoles",
           "deleteResources", "deleteDefaultTenant">>
    [] fn = "resetRbac" -> <<"deleteRoles", "deleteResources">>
    [] fn = "resetAbac" ->
         <<"deleteSetRules", "deleteConditionSets", "deleteUserAttributes", "deleteRoles">>
    [] fn = "resetResources" -> <<"deleteResources">>
    [] fn = "resetRoles" -> <<"deleteRoles">>

\* resets that end by reading the roles back
StagesThenReadBack(fn) ==
  CASE fn = "resetAll" ->
         <<"deleteSetRules", "deleteConditionSets", "deleteUserAttributes", "deleteRoles",
           "deleteResources", "deleteDefaultTenant", "listRoles">>
    [] fn = "resetRbac" -> <<"deleteRoles", "deleteResources", "listRoles">>
    [] fn = "resetAbac" ->
         <<"deleteSetRules", "deleteConditionSets", "deleteUserAttributes", "listRoles">>
    [] fn = "resetResources" -> <<"deleteResources", "listRoles">>
    [] fn = "resetRoles" -> <<"deleteRoles", "listRoles">>

\* the stages each reset awaits, in the order of its statements
Stages(fn) ==
  CASE fn = "resetAll" ->
         <<"deleteSetRules", "deleteConditionSets", "deleteUserAttributes", "deleteRoles",
           "deleteResources", "deleteDefaultTenant">>
    [] fn = "resetRbac" -> <<"deleteRoles", "deleteResources">>
    [] fn = "resetAbac" -> <<"deleteSetRules", "deleteConditionSets", "deleteUserAttributes">>
    [] fn = "resetResources" -> <<"deleteResources">>
    [] fn = "resetRoles" -> <<"deleteRoles">>

\* a reset: await each stage in turn
Reset(fn) ==
  /\ run = "running" /\ Len(stack) > 0 /\ Top.fn = fn
  /\ IF Top.ix <= Len(Stages(fn))
       THEN /\ stack' = Append([stack EXCEPT ![Len(stack)].ix = @ + 1],
                               Frame(Stages(fn)[Top.ix], "start", 1))
            /\ UNCHANGED <<run, ret>>
       ELSE ReturnWith(RetVoid)
  /\ out' = IF Top.ix = 1 THEN <<Line("info", fn, "begin", "")>>
            ELSE IF Top.ix > Len(Stages(fn)) THEN <<Line("success", fn, "end", "")>>
            ELSE out
  /\ UNCHANGED <<remote, call, op, arg, todo, pending, deleted, log, report, warned, opsRun,
                 outside>>

resetAll == Reset("resetAll")

resetRbac == Reset("resetRbac")

resetAbac == Reset("resetAbac")

resetResources == Reset("resetResources")

resetRoles == Reset("resetRoles")

-----------------------------------------------------------------------------
(* horaion-setup.js: the preset runner *)

createOrUpdateUserSet ==
  \/ /\ At("createOrUpdateUserSet", "start")
     /\ permitApi("POST", "condition_sets", NoKey,
                  [key |-> arg.key, type |-> "userset", conditions |-> arg.conditions],
                  "createOrUpdateUserSet")
     /\ Goto("created")
     /\ UNCHANGED <<remote, op, run, arg, ret, todo, pending, deleted, report, warned, opsRun, out, outside>>
  \/ /\ run = "running" /\ Len(stack) > 0 /\ Top.fn = "createOrUpdateUserSet"
     /\ Top.pc \in {"created", "updated"}
     /\ Returned("createOrUpdateUserSet")
     /\ IF Top.pc = "updated"
          THEN ReturnWith(RetBool(call.result.success)) /\ Consume /\ UNCHANGED log
        ELSE IF call.result.success
          THEN ReturnWith(RetBool(TRUE)) /\ Consume /\ UNCHANGED log
        ELSE IF StatusIs(call.result, 409)
          THEN /\ permitApi("PATCH", "condition_sets", [key |-> arg.key],
                            [conditions |-> arg.conditions], "createOrUpdateUserSet")
               /\ Goto("updated")
               /\ UNCHANGED <<run, ret>>
        ELSE ReturnWith(RetBool(FALSE)) /\ Consume /\ UNCHANGED log
     /\ UNCHANGED <<remote, op, arg, todo, pending, deleted, report, warned, opsRun, out, outside>>

\* line 347: condition.includes('user.groups')
usesUserGroups(us) == StrIncludes(JSONstringify(us.conditions), Chars("user.groups"))

\* a warning that looks for user.groups
usesSubjectGroupsCopied(us) == StrIncludes(JSONstringify(us.conditions), Chars("user.groups"))

\* lines 362-365: condition.includes('subject.groups')
usesSubjectGroups(us) == StrIncludes(JSONstringify(us.conditions), Chars("subject.groups"))

\* line 348: the status printed after the key of a user set
StatusLabel(us) == IF usesUserGroups(us) THEN "(user.groups)" ELSE "(subject.groups - WRONG!)"

presetVerifySetup ==
  \/ /\ At("presetVerifySetup", "start")
     /\ Await("listConditionSets", NoKey, "conditionSets")
     /\ UNCHANGED <<remote, call, op, run, ret, todo, pending, deleted, log, report, warned,
                    opsRun, out, outside>>
  \/ /\ At("presetVerifySetup", "conditionSets")
     /\ IF ret.value.kind = "array"
          THEN LET userSets == Filter(ret.value.items, "userset") IN
               /\ pending' = userSets
               /\ report' = [i \in 1..Len(userSets) |->
                               [key |-> userSets[i].key, status |-> StatusLabel(userSets[i])]]
               /\ Await("listSetRules", NoKey, "setRules")
               /\ UNCHANGED <<run, ret>>
          ELSE Raise /\ UNCHANGED <<arg, ret, pending, report>>
     /\ UNCHANGED <<remote, call, op, todo, deleted, log, warned, opsRun, out, outside>>
  \/ /\ At("presetVerifySetup", "setRules")
     /\ IF ret.value.kind = "array"
          THEN LET wrongConditions == SelectSeq(pending, usesSubjectGroups) IN
               /\ warned' = [i \in 1..Len(wrongConditions) |-> wrongConditions[i].key]
               /\ ReturnWith(RetVoid)
          ELSE Raise /\ UNCHANGED <<ret, warned>>
     /\ UNCHANGED <<remote, call, op, arg, todo, pending, deleted, log, report, opsRun, out, outside>>

\* the preset, abridged to two resources, two user sets and two rules; each resource
\* with the first two of its actions
RESOURCES ==
  <<[key |-> "company", actions |-> <<"create", "read">>],
    [key |-> "branch", actions |-> <<"create", "read">>]>>

USER_SETS ==
  <<[key |-> "system-administrators",
     conditions |-> [allOf |-> <<Pred("user.groups", "array_contains",
                                      "system-administrator")>>]],
    [key |-> "users",
     conditions |-> [allOf |-> <<Pred("user.groups", "array_contains", "user")>>]]>>

SET_RULES ==
  <<[userSet |-> "system-administrators", resource |-> "company",
     actions |-> <<"create", "read">>],
    [userSet |-> "users", resource |-> "company", actions |-> <<"read">>]>>

RECURSIVE RuleCalls(_)
\* the arguments of the calls of createSetRule, in the order of the two nested loops:
\* (rule.userSet, `__autogen_${rule.resource}`, `${rule.resource}:${action}`)
RuleCalls(rules) ==
  IF rules = <<>> THEN <<>>
  ELSE [i \in 1..Len(Head(rules).actions) |->
          [user_set |-> Head(rules).userSet,
           resource_set |-> "__autogen_" \o Head(rules).resource,
           permission |-> Head(rules).resource \o ":" \o Head(rules).actions[i]]]
       \o RuleCalls(Tail(rules))

\* await fn(a) for the next item of a loop, to come back to the loop at position pc
AwaitItem(fn, a, pc) ==
  /\ stack' = Append([stack EXCEPT ![Len(stack)] = Frame(Top.fn, pc, Top.ix + 1)],
                     Frame(fn, "start", 1))
  /\ arg' = a

\* for (const resource of RESOURCES) await createResource({key, ..., actions})
setupResources ==
  /\ At("setupResources", "start")
  /\ IF Top.ix <= Len(RESOURCES)
       THEN /\ AwaitItem("createResource",
                         [key |-> RESOURCES[Top.ix].key,
                          actions |-> Range(RESOURCES[Top.ix].actions)], "start")
            /\ out' = IF Top.ix = 1 THEN <<Line("info", "setupResources", "begin", "")>>
                      ELSE out
            /\ UNCHANGED <<run, ret>>
       ELSE /\ ReturnWith(RetVoid)
            /\ out' = <<Line("success", "setupResources", "end", "")>>
            /\ arg' = arg
  /\ UNCHANGED <<remote, call, op, todo, pending, deleted, log, report, warned, opsRun,
                 outside>>

\* for (const userSet of USER_SETS) await createOrUpdateUserSet(userSet)
setupUserSets ==
  /\ At("setupUserSets", "start")
  /\ IF Top.ix <= Len(USER_SETS)
       THEN /\ AwaitItem("createOrUpdateUserSet", USER_SETS[Top.ix], "start")
            /\ out' = IF Top.ix = 1 THEN <<Line("info", "setupUserSets", "begin", "")>>
                      ELSE out
            /\ UNCHANGED <<run, ret>>
       ELSE /\ ReturnWith(RetVoid)
            /\ out' = <<Line("success", "setupUserSets", "end", "")>>
            /\ arg' = arg
  /\ UNCHANGED <<remote, call, op, todo, pending, deleted, log, report, warned, opsRun,
                 outside>>

\* for (const rule of SET_RULES) for (const action of rule.actions):
\* success = await createSetRule(...), then one line for the outcome
setupSetRules ==
  \/ /\ At("setupSetRules", "start")
     /\ IF Top.ix <= Len(RuleCalls(SET_RULES))
          THEN /\ AwaitItem("createSetRule", RuleCalls(SET_RULES)[Top.ix], "created")
               /\ out' = IF Top.ix = 1 THEN <<Line("info", "setupSetRules", "begin", "")>>
                         ELSE out
               /\ UNCHANGED <<run, ret>>
          ELSE /\ ReturnWith(RetVoid)
               /\ out' = <<Line("success", "setupSetRules", "end", "")>>
               /\ arg' = arg
     /\ UNCHANGED <<remote, call, op, todo, pending, deleted, log, report, warned, opsRun,
                    outside>>
  \/ /\ At("setupSetRules", "created")
     /\ Goto("start")
     /\ out' = <<Line(IF ret.bool THEN "success" ELSE "info", "setupSetRules",
                      IF ret.bool THEN "created" ELSE "existsOrFailed", arg.permission)>>
     /\ UNCHANGED <<remote, call, op, run, arg, ret, todo, pending, deleted, log, report,
                    warned, opsRun, outside>>

-----------------------------------------------------------------------------
(* verify.js: the verification report *)

\* the five sections in the order of the statements, each with the list function it awaits
Sections ==
  <<[name |-> "roles", list |-> "listRoles"],
    [name |-> "resources", list |-> "listResources"],
    [name |-> "userSets", list |-> "listConditionSets"],
    [name |-> "resourceSets", list |-> "listConditionSets"],
    [name |-> "setRules", list |-> "listSetRules"]>>

\* the statements of a section after its await, on the value v the list function returned:
\*   roles, resources: if (v && v.length > 0) print the items, else warn that none was found
\*   user sets, resource sets: v?.filter(type) || [], where a value that is no array has
\*     no filter function and the call throws a TypeError
\*   set rules: v?.length ?? '?'
SectionBody(name, v) ==
  CASE name \in {"roles", "resources"} ->
         IF v.kind = "array" /\ Len(v.items) > 0 THEN Return("listed") ELSE Return("none")
    [] name \in {"userSets", "resourceSets"} ->
         IF v.kind = "null" THEN Return("none")
         ELSE IF v.kind = "array"
           THEN LET type == IF name = "userSets" THEN "userset" ELSE "resourceset" IN
                IF Len(Filter(v.items, type)) > 0 THEN Return("listed") ELSE Return("none")
         ELSE Throw("TypeError")
    [] name = "setRules" -> Return("total")

\* a section without its catch block
CatchSectionRethrows(c) == c

\* try { section } catch { logger.warning('Could not list ...') }
CatchSection(c) == IF c.threw THEN Return("couldNot") ELSE c

\* the line a section ends with
SectionLine(name, outcome) ==
  Line(IF outcome \in {"none", "couldNot"} THEN "warning" ELSE "plain",
       "verifySetup", outcome, name)

verifySetup ==
  \/ /\ At("verifySetup", "start")
     /\ IF Top.ix <= Len(Sections)
          THEN /\ stack' = Append([stack EXCEPT ![Len(stack)].pc = "listed"],
                                  Frame(Sections[Top.ix].list, "start", 1))
               /\ out' = <<Line("info", "verifySetup", "section", Sections[Top.ix].name)>>
               /\ UNCHANGED <<run, ret>>
          ELSE /\ ReturnWith(RetVoid)
               /\ out' = <<Line("success", "verifySetup", "end", "")>>
     /\ UNCHANGED <<remote, call, op, arg, todo, pending, deleted, log, report, warned,
                    opsRun, outside>>
  \/ /\ run = "running" /\ Len(stack) > 0 /\ Top.fn = "verifySetup"
     /\ Top.pc \in {"listed", "caught"}
     /\ LET name == Sections[Top.ix].name
            c == CatchSection(IF Top.pc = "caught" THEN Throw("Error")
                              ELSE SectionBody(name, ret.value))
        IN  IF c.threw
              THEN Raise /\ UNCHANGED <<report, out>>
              ELSE /\ report' = Append(report, [key |-> name, status |-> c.value])
                   /\ out' = <<SectionLine(name, c.value)>>
                   /\ stack' = [stack EXCEPT ![Len(stack)].pc = "start",
                                             ![Len(stack)].ix = @ + 1]
                   /\ UNCHANGED run
     /\ UNCHANGED <<remote, call, op, arg, ret, todo, pending, deleted, log, warned, opsRun,
                    outside>>

-----------------------------------------------------------------------------
(* A caller that awaits permitApi and takes its result *)

callPermitApi ==
  \/ /\ At("permitApi", "start")
     /\ permitApi(arg.method, arg.kind, arg.key, arg.body, "permitApi")
     /\ Goto("await")
     /\ UNCHANGED <<remote, op, run, arg, ret, todo, pending, deleted, report, warned, opsRun, out, outside>>
  \/ /\ At("permitApi", "await") /\ Returned("permitApi")
     /\ ReturnWith(RetVoid)
     /\ Consume
     /\ UNCHANGED <<remote, op, arg, todo, pending, deleted, log, report, warned, opsRun, out, outside>>

-----------------------------------------------------------------------------
(* The operator starts operations, one after the other *)

RuleArg == [user_set |-> "staff", resource_set |-> "docs", permission |-> "doc:read"]

\* the arguments each operation is started with
Args(fn) ==
  CASE fn = "createResource" -> {DocResource}
    [] fn = "createRole" -> {[key |-> "editor"]}
    [] fn = "createUserAttribute" -> {[key |-> "team"]}
    [] fn \in {"createUserSet", "createOrUpdateUserSet"} ->
         {[key |-> UserSetGood.key, conditions |-> UserSetGood.conditions]}
    [] fn = "createResourceSet" ->
         {[key |-> ResourceSet.key, conditions |-> ResourceSet.conditions]}
    [] fn = "createSetRule" -> {RuleArg}
    [] fn = "deleteResource" -> {[key |-> "doc"]}
    [] fn = "deleteRole" -> {[key |-> "editor"]}
    [] fn = "permitApi" ->
         {Request("GET", "resources", NoKey, NoBody),
          Request("GET", "roles", [key |-> "editor"], NoBody),
          Request("POST", "resources", NoKey, DocResource),
          Request("POST", "roles", NoKey, Circular),
          Request("PATCH", "condition_sets", [key |-> "staff"],
                  [conditions |-> UserSetWrong.conditions]),
          Request("DELETE", "tenants", [key |-> DEFAULT_TENANT], NoBody)}
    [] OTHER -> {NoKey}

CreateOps == {"createResource", "createRole", "createUserAttribute", "createUserSet",
              "createResourceSet", "createSetRule"}
DeleteOps == {"deleteResource", "deleteRole"}
ListOps == {"listResources", "listRoles", "listUserAttributes", "listConditionSets",
            "listSetRules"}
ResetOps == {"resetAll", "resetRbac", "resetAbac", "resetResources", "resetRoles"}
PresetOps == {"createOrUpdateUserSet", "presetVerifySetup"}

VerifyOps == {"verifySetup", "presetVerifySetup"}

TransportOps == {"permitApi"}

Ops == CreateOps \cup DeleteOps \cup ListOps \cup ResetOps \cup PresetOps \cup TransportOps

StartOf(fns) ==
  /\ run # "running"
  /\ opsRun < MaxOps
  /\ \E fn \in fns : \E a \in Args(fn) :
       /\ op' = fn
       /\ arg' = a
       /\ stack' = <<Frame(fn, "start", 1)>>
  /\ run' = "running"
  /\ opsRun' = opsRun + 1
  /\ call' = IdleCall
  /\ ret' = RetVoid
  /\ todo' = <<>>
  /\ pending' = <<>>
  /\ deleted' = 0
  /\ log' = <<>>
  /\ report' = <<>>
  /\ warned' = <<>>
  /\ out' = <<>>
  /\ UNCHANGED <<remote, outside>>

Start == StartOf(Ops)

\* only calls of the transport client are started
StartCall == StartOf(TransportOps)

\* no entry point runs: the functions are called directly
NoProc == [entry |-> "", apiKey |-> TRUE, flags |-> {}, prompts |-> <<>>, modes |-> <<>>,
           confirmed |-> <<>>, exit |-> -1, error |-> ""]

IdleProbe == [phase |-> "idle", timer |-> FALSE, elapsed |-> 0, status |-> 0, text |-> "",
              failure |-> "", returned |-> FALSE, value |-> FALSE, threw |-> FALSE]

\* the state of the session before the operator starts anything
Quiet ==
  /\ call = IdleCall
  /\ op = ""
  /\ run = "idle"
  /\ stack = <<>>
  /\ arg = NoKey
  /\ ret = RetVoid
  /\ todo = <<>>
  /\ pending = <<>>
  /\ deleted = 0
  /\ log = <<>>
  /\ report = <<>>
  /\ warned = <<>>
  /\ opsRun = 0
  /\ out = <<>>
  /\ past = <<>>
  /\ probe = IdleProbe

Init ==
  /\ remote \in InitRemotes
  /\ proc = NoProc
  /\ Quiet

Next ==
  \/ Start
  \/ fetchResolves
  \/ fetchRejects
  \/ timerFires
  \/ textResolves
  \/ textRejects
  \/ Tick
  \/ createResource
  \/ createRole
  \/ createUserAttribute
  \/ createUserSet
  \/ createResourceSet
  \/ createSetRule
  \/ listResources
  \/ listRoles
  \/ listUserAttributes
  \/ listConditionSets
  \/ listSetRules
  \/ deleteResource
  \/ deleteRole
  \/ deleteSetRules
  \/ deleteConditionSets
  \/ deleteUserAttributes
  \/ deleteRoles
  \/ deleteResources
  \/ deleteDefaultTenant
  \/ resetAll
  \/ resetRbac
  \/ resetAbac
  \/ resetResources
  \/ resetRoles
  \/ createOrUpdateUserSet
  \/ presetVerifySetup
  \/ callPermitApi

Spec == Init /\ [][Next]_vars

\* the transport client alone, called with every request
TransportNext ==
  \/ StartCall
  \/ fetchResolves
  \/ fetchRejects
  \/ timerFires
  \/ textResolves
  \/ textRejects
  \/ Tick
  \/ callPermitApi

\* the event loop lets time pass and runs a timer that is due
TransportSpec ==
  Init /\ [][TransportNext]_vars /\ WF_vars(Tick) /\ WF_vars(timerFires)

\* the operator runs a verification
StartVerify == StartOf(VerifyOps)

\* the two verifications with the list functions they await
VerifyNext ==
  \/ StartVerify
  \/ fetchResolves
  \/ fetchRejects
  \/ timerFires
  \/ textResolves
  \/ textRejects
  \/ Tick
  \/ listResources
  \/ listRoles
  \/ listConditionSets
  \/ listSetRules
  \/ verifySetup
  \/ presetVerifySetup

VerifySpec == Init /\ [][VerifyNext]_vars

-----------------------------------------------------------------------------
(* api.js: checkEdgePdpHealth *)

\* the statuses and the body texts the decision point may answer with
HealthStatuses == {200, 204, 404, 503}
HealthTexts == {"", "healthy", "unhealthy", "ok", "OK", "broken", "down"}

\* a probe that trusts the status alone
HealthValueStatusOnly(text, status) == ResponseOk(status)

\* text.includes('healthy') || text.includes('ok') || response.ok
HealthValue(text, status) ==
  \/ StrIncludes(Chars(text), Chars("healthy"))
  \/ StrIncludes(Chars(text), Chars("ok"))
  \/ ResponseOk(status)

\* try { ... } catch { return false; }
CatchHealth(c) == IF c.threw THEN Return(FALSE) ELSE c

\* the probe ends with a completion; failure names what was caught, if anything
Conclude(c, failure) ==
  [probe EXCEPT !.phase = "done", !.failure = failure, !.returned = ~c.threw,
                !.value = IF c.threw THEN FALSE ELSE c.value, !.threw = c.threw]

\* the timer is armed and the request sent
checkEdgePdpHealth ==
  /\ probe.phase = "idle"
  /\ probe' = [probe EXCEPT !.phase = "fetch", !.timer = TRUE]
  /\ UNCHANGED <<inside, past, proc>>

\* time passes while the timer is armed
probeTick ==
  /\ probe.phase = "fetch"
  /\ probe.timer
  /\ probe.elapsed < HEALTH_TIMEOUT_MS
  /\ probe' = [probe EXCEPT !.elapsed = @ + ProbeTickMs]
  /\ UNCHANGED <<inside, past, proc>>

\* controller.abort(): the pending fetch rejects with an AbortError, which is caught
probeTimerFires ==
  /\ probe.phase = "fetch"
  /\ probe.timer
  /\ probe.elapsed >= HEALTH_TIMEOUT_MS
  /\ probe' = [Conclude(CatchHealth(Throw("AbortError")), "abort") EXCEPT !.timer = FALSE]
  /\ UNCHANGED <<inside, past, proc>>

\* fetch resolves with a response of any status; clearTimeout
probeFetchResolves ==
  /\ probe.phase = "fetch"
  /\ \E s \in HealthStatuses :
       probe' = [probe EXCEPT !.phase = "text", !.status = s, !.timer = FALSE]
  /\ UNCHANGED <<inside, past, proc>>

\* fetch rejects (no connection): caught, the timer is left armed
probeFetchRejects ==
  /\ probe.phase = "fetch"
  /\ probe' = Conclude(CatchHealth(Throw("TypeError")), "network")
  /\ UNCHANGED <<inside, past, proc>>

\* response.text() resolves and the value is computed
probeTextResolves ==
  /\ probe.phase = "text"
  /\ \E t \in HealthTexts :
       probe' = [Conclude(CatchHealth(Return(HealthValue(t, probe.status))), "")
                   EXCEPT !.text = t]
  /\ UNCHANGED <<inside, past, proc>>

\* response.text() rejects (the connection broke while the body was read): caught
probeTextRejects ==
  /\ probe.phase = "text"
  /\ probe' = Conclude(CatchHealth(Throw("TypeError")), "body")
  /\ UNCHANGED <<inside, past, proc>>

HealthNext ==
  \/ checkEdgePdpHealth
  \/ probeTick
  \/ probeTimerFires
  \/ probeFetchResolves
  \/ probeFetchRejects
  \/ probeTextResolves
  \/ probeTextRejects

HealthSpec == Init /\ [][HealthNext]_vars

-----------------------------------------------------------------------------
(* A session against a remote that answers by its state *)

\* the entity a request addresses
Addressed(req) ==
  KeyOf(req.kind, IF req.method = "POST" \/ req.kind = "set_rules" THEN req.body ELSE req.key)

\* the status of a remote that answers by its state: a list is answered, a create of an
\* existing key conflicts, a delete or an update of an absent entity is not found
FaithfulStatus(req, r) ==
  CASE req.method = "GET" /\ req.key = NoKey -> 200
    [] req.method = "POST" -> IF HasKey(r, req.kind, Addressed(req)) THEN 409 ELSE 200
    [] req.method = "DELETE" -> IF HasKey(r, req.kind, Addressed(req)) THEN 204 ELSE 404
    [] OTHER -> IF HasKey(r, req.kind, Addressed(req)) THEN 200 ELSE 404

\* the body such a remote sends
FaithfulBody(req, status, r) ==
  IF req.method = "GET" /\ req.key = NoKey THEN JsonBody(Array(Listing(r, req.kind)))
  ELSE IF status = 204 THEN EmptyBody
  ELSE JsonBody(Object)

faithfulFetch == fetchAnswers(FaithfulStatus(call.req, remote))

faithfulText == textArrives(FaithfulBody(call.req, call.status, remote))

\* the operations of the session, and how many of them the operator runs
SessionOps == {"resetAll", "createResource", "listResources"}

\* the resource of the same key with other actions
DocRevised == [key |-> "doc", actions |-> {"read", "update"}]

\* the arguments the operations of the session are started with
SessionArgs(fn) == IF fn = "createResource" THEN {DocResource, DocRevised} ELSE Args(fn)

\* the finished run is put on record with what it returned and left behind
Closed(runs) ==
  IF runs = <<>> THEN runs
  ELSE [runs EXCEPT ![Len(runs)] = [@ EXCEPT !.after = remote, !.ret = ret, !.done = TRUE]]

\* the operator starts the next operation of the session when the last one is over
StartNext ==
  /\ run # "running"
  /\ Len(past) < MaxRuns
  /\ \E fn \in SessionOps : \E a \in SessionArgs(fn) :
       /\ op' = fn
       /\ arg' = a
       /\ stack' = <<Frame(fn, "start", 1)>>
       /\ past' = Append(Closed(past), [op |-> fn, arg |-> a, before |-> remote,
                                        after |-> remote, ret |-> RetVoid, done |-> FALSE])
  /\ run' = "running"
  /\ opsRun' = opsRun + 1
  /\ call' = IdleCall
  /\ ret' = RetVoid
  /\ todo' = <<>>
  /\ pending' = <<>>
  /\ deleted' = 0
  /\ log' = <<>>
  /\ report' = <<>>
  /\ warned' = <<>>
  /\ out' = <<>>
  /\ UNCHANGED <<remote, proc, probe>>

FaithfulNext ==
  \/ StartNext
  \/ faithfulFetch
  \/ faithfulText
  \/ createResource
  \/ listResources
  \/ listRoles
  \/ listConditionSets
  \/ deleteResource
  \/ deleteSetRules
  \/ deleteConditionSets
  \/ deleteUserAttributes
  \/ deleteRoles
  \/ deleteResources
  \/ deleteDefaultTenant
  \/ resetAll

FaithfulSpec == Init /\ [][FaithfulNext]_vars

-----------------------------------------------------------------------------
(* index.js and horaion-setup.js: the two entry points *)

Entries == {"index", "horaion"}

\* the options of each entry point
FlagsOf(entry) ==
  IF entry = "index" THEN {"verify", "reset", "resetResources", "resetRoles", "resetAbac"}
  ELSE {"verify", "userSets", "addUserSet"}

\* the names each module of the repository exports
Exports(module) ==
  CASE module = "./config.js" -> {"config", "validateConfig"}
    [] module = "./logger.js" -> {"logger"}
    [] module = "./api.js" -> {"permitApi", "checkEdgePdpHealth"}
    [] module = "./resources.js" ->
         {"createResource", "getResource", "listResources", "deleteResource"}
    [] module = "./roles.js" ->
         {"createRole", "assignPermissionToRole", "listRoles", "deleteRole"}
    [] module = "./abac.js" ->
         {"listUserAttributes", "createUserAttribute", "createUserSet", "createResourceSet",
          "createSetRule", "listConditionSets", "listSetRules"}
    [] module = "./verify.js" -> {"verifySetup"}
    [] module = "./reset.js" ->
         {"resetAll", "resetRbac", "resetAbac", "resetResources", "resetRoles"}
    [] module = "./presets.js" ->
         {"VALIDATION_PATTERNS", "AVAILABLE_ACTIONS", "CONDITION_OPERATORS", "ATTRIBUTE_TYPES",
          "PROTECTED_RESOURCES", "PROTECTED_ROLES", "DEFAULT_TENANT",
          "DEFAULT_USER_ATTRIBUTE", "API_CONFIG", "LOGGER_CONFIG", "CONDITION_SET_TYPES",
          "validateKey", "capitalize", "keyToDisplayName"}

\* the names an entry point imports from the modules of the repository
Imports(entry) ==
  IF entry = "index"
    THEN [from : {"./config.js"}, name : {"config", "validateConfig"}]
         \cup [from : {"./logger.js"}, name : {"logger"}]
         \cup [from : {"./api.js"}, name : {"checkEdgePdpHealth"}]
         \cup [from : {"./resources.js"},
               name : {"createResource", "listResources", "getResource"}]
         \cup [from : {"./roles.js"},
               name : {"createRole", "listRoles", "assignPermissionToRole"}]
         \cup [from : {"./abac.js"},
               name : {"createUserSet", "createResourceSet", "listConditionSets",
                       "listUserAttributes", "createUserAttribute"}]
         \cup [from : {"./verify.js"}, name : {"verifySetup"}]
         \cup [from : {"./reset.js"},
               name : {"resetAll", "resetAbac", "resetResources", "resetRoles"}]
         \cup [from : {"./presets.js"},
               name : {"AVAILABLE_ACTIONS", "CONDITION_OPERATORS", "ATTRIBUTE_TYPES",
                       "PROTECTED_RESOURCES", "validateKey", "keyToDisplayName",
                       "capitalize"}]
    ELSE [from : {"./config.js"}, name : {"config", "validateConfig"}]
         \cup [from : {"./logger.js"}, name : {"logger"}]
         \cup [from : {"./api.js"}, name : {"permitApi"}]
         \cup [from : {"./resources.js"}, name : {"createResource"}]
         \cup [from : {"./abac.js"},
               name : {"createUserSet", "createSetRule", "listConditionSets",
                       "listSetRules", "createUserAttributes"}]
         \cup [from : {"./presets.js"},
               name : {"CONDITION_OPERATORS", "USER_ATTRIBUTES", "validateKey",
                       "keyToDisplayName"}]

\* the module graph links: every imported name is exported by the module it is
\* imported from; otherwise the entry point ends with a SyntaxError before it runs
Loads(entry) == \A i \in Imports(entry) : i.name \in Exports(i.from)

\* validateConfig: if (!config.apiKey) throw new Error(...); return true
validateConfig(apiKey) == IF ~apiKey THEN Throw("Error") ELSE Return(TRUE)

\* index.js: the if / else if chain of main
MainMode(flags) ==
  IF "verify" \in flags THEN "verify"
  ELSE IF "reset" \in flags THEN "reset"
  ELSE IF "resetResources" \in flags THEN "resetResources"
  ELSE IF "resetRoles" \in flags THEN "resetRoles"
  ELSE IF "resetAbac" \in flags THEN "resetAbac"
  ELSE "menu"

\* the function each mode, and each choice of the menu, runs
RunnerOf(mode) ==
  CASE mode \in {"verify"} -> "runVerify"
    [] mode \in {"reset", "reset-all"} -> "runResetAll"
    [] mode \in {"resetResources", "reset-resources"} -> "runResetResources"
    [] mode \in {"resetRoles", "reset-roles"} -> "runResetRoles"
    [] mode \in {"resetAbac", "reset-abac"} -> "runResetAbac"
    [] mode = "menu" -> "showInteractiveMenu"

\* horaion-setup.js: the if / else if chain of main
PresetMode(flags) ==
  IF "verify" \in flags THEN "verify"
  ELSE IF "addUserSet" \in flags THEN "addUserSet"
  ELSE IF "userSets" \in flags THEN "userSetsOnly"
  ELSE "full"

\* the first function each mode of the preset runner calls
PresetFirst(mode) ==
  CASE mode = "verify" -> "presetVerifySetup"
    [] mode = "addUserSet" -> "addCustomUserSets"
    [] mode = "userSetsOnly" -> "setupUserSets"
    [] mode = "full" -> "setupResources"

\* the process ends with an exit code; p is the process as it was at that moment
ExitFrom(p, code, error) ==
  /\ proc' = [p EXCEPT !.exit = code, !.error = error]
  /\ stack' = <<>>
  /\ run' = "exited"

\* a prompt of @inquirer/prompts is shown
Asked(name) == [proc EXCEPT !.prompts = Append(@, name)]

\* the operator runs an entry point, with or without the credential in the
\* environment, and with any options
launch ==
  /\ run = "idle"
  /\ proc.entry = ""
  /\ \E e \in Entries : \E k \in BOOLEAN : \E f \in SUBSET FlagsOf(e) :
       /\ proc' = [NoProc EXCEPT !.entry = e, !.apiKey = k, !.flags = f]
       /\ op' = IF e = "index" THEN "main" ELSE "presetMain"
       /\ stack' = <<Frame(IF e = "index" THEN "main" ELSE "presetMain", "load", 1)>>
  /\ run' = "running"
  /\ UNCHANGED <<remote, call, arg, ret, todo, pending, deleted, log, report, warned,
                 opsRun, out, past, probe>>

\* index.js: the module is linked, then main runs to its first await; when the
\* awaited mode has returned main returns and the process ends, when it threw the
\* catch block exits with 1
main ==
  \/ /\ At("main", "load")
     /\ IF ~Loads("index")
          THEN ExitFrom(proc, 1, "SyntaxError") /\ arg' = arg
        ELSE IF validateConfig(proc.apiKey).threw
          THEN ExitFrom(proc, 1, "config") /\ arg' = arg
        ELSE /\ proc' = [proc EXCEPT !.modes = Append(@, MainMode(proc.flags))]
             /\ Await(RunnerOf(MainMode(proc.flags)), NoKey, "ran")
             /\ run' = run
     /\ UNCHANGED <<remote, call, op, ret, todo, pending, deleted, log, report, warned,
                    opsRun, out, past, probe>>
  \/ /\ run = "running" /\ Len(stack) = 1 /\ Top.fn = "main" /\ Top.pc \in {"ran", "caught"}
     /\ IF Top.pc = "caught" THEN ExitFrom(proc, 1, "Error") ELSE ExitFrom(proc, 0, "")
     /\ UNCHANGED <<remote, call, op, arg, ret, todo, pending, deleted, log, report, warned,
                    opsRun, out, past, probe>>

\* horaion-setup.js: the module is linked, then main runs to its first await
presetMain ==
  /\ At("presetMain", "load")
  /\ IF ~Loads("horaion")
       THEN ExitFrom(proc, 1, "SyntaxError") /\ arg' = arg
     ELSE IF validateConfig(proc.apiKey).threw
       THEN ExitFrom(proc, 1, "config") /\ arg' = arg
     ELSE /\ proc' = [proc EXCEPT !.modes = Append(@, PresetMode(proc.flags))]
          /\ Await(PresetFirst(PresetMode(proc.flags)), NoKey, "ran")
          /\ run' = run
  /\ UNCHANGED <<remote, call, op, ret, todo, pending, deleted, log, report, warned,
                 opsRun, out, past, probe>>

runVerify ==
  \/ /\ At("runVerify", "start")
     /\ Await("verifySetup", NoKey, "done")
     /\ out' = <<Line("info", "runVerify", "begin", "")>>
     /\ UNCHANGED <<remote, call, op, run, ret, todo, pending, deleted, log, report,
                    warned, opsRun, outside>>
  \/ /\ At("runVerify", "done")
     /\ ReturnWith(RetVoid)
     /\ UNCHANGED <<remote, call, op, arg, todo, pending, deleted, log, report, warned,
                    opsRun, out, outside>>

\* the operator's answer to 'Are you sure ...?' is noted
Answered(confirmed) == [Asked("confirm") EXCEPT !.confirmed = Append(@, confirmed)]

\* a reset of the command line that asks and then resets whatever the answer
RunResetWhateverTheAnswer(fn, reset) ==
  \/ /\ At(fn, "start")
     /\ \E confirmed \in BOOLEAN :
          /\ proc' = Answered(confirmed)
          /\ Await(reset, NoKey, "done")
     /\ UNCHANGED <<remote, call, op, run, ret, todo, pending, deleted, log, report, warned,
                    opsRun, out, past, probe>>
  \/ /\ At(fn, "done")
     /\ ReturnWith(RetVoid)
     /\ UNCHANGED <<remote, call, op, arg, todo, pending, deleted, log, report, warned,
                    opsRun, out, outside>>

\* a reset of the command line: confirm (default false), then the reset, or nothing
RunReset(fn, reset) ==
  \/ /\ At(fn, "start")
     /\ \E confirmed \in BOOLEAN :
          /\ proc' = Answered(confirmed)
          /\ IF confirmed
               THEN Await(reset, NoKey, "done") /\ ret' = ret /\ run' = run /\ out' = out
               ELSE /\ ReturnWith(RetVoid)
                    /\ arg' = arg
                    /\ out' = <<Line("info", fn, "cancelled", "")>>
     /\ UNCHANGED <<remote, call, op, todo, pending, deleted, log, report, warned, opsRun,
                    past, probe>>
  \/ /\ At(fn, "done")
     /\ ReturnWith(RetVoid)
     /\ UNCHANGED <<remote, call, op, arg, todo, pending, deleted, log, report, warned,
                    opsRun, out, outside>>

runResetAll == RunReset("runResetAll", "resetAll")

runResetAbac == RunReset("runResetAbac", "resetAbac")

runResetResources == RunReset("runResetResources", "resetResources")

runResetRoles == RunReset("runResetRoles", "resetRoles")

\* the choices of the menu that need no further input (the how-to page and the create
\* dialogues are left out)
MenuChoices == {"verify", "reset-all", "reset-resources", "reset-roles", "reset-abac", "exit"}

\* while (continueMenu): select, run the choice, confirm 'Run another operation?'
showInteractiveMenu ==
  \/ /\ At("showInteractiveMenu", "start")
     /\ \E choice \in MenuChoices :
          IF choice = "exit"
            THEN ExitFrom(Asked("select"), 0, "") /\ arg' = arg
            ELSE /\ proc' = Asked("select")
                 /\ Await(RunnerOf(choice), NoKey, "again")
                 /\ run' = run
     /\ UNCHANGED <<remote, call, op, ret, todo, pending, deleted, log, report, warned,
                    opsRun, out, past, probe>>
  \/ /\ At("showInteractiveMenu", "again")
     /\ proc' = Asked("confirm")
     /\ \E another \in BOOLEAN :
          /\ another => Top.ix < MaxRounds
          /\ IF another
               THEN /\ stack' = [stack EXCEPT ![Len(stack)] =
                                   Frame("showInteractiveMenu", "start", Top.ix + 1)]
                    /\ UNCHANGED <<ret, run>>
               ELSE ReturnWith(RetVoid)
     /\ UNCHANGED <<remote, call, op, arg, todo, pending, deleted, log, report, warned,
                    opsRun, out, past, probe>>

CliNext ==
  \/ launch
  \/ main
  \/ presetMain
  \/ runVerify
  \/ runResetAll
  \/ runResetAbac
  \/ runResetResources
  \/ runResetRoles
  \/ showInteractiveMenu
  \/ verifySetup
  \/ resetAll
  \/ resetAbac
  \/ resetResources
  \/ resetRoles
  \/ deleteSetRules
  \/ deleteConditionSets
  \/ deleteUserAttributes
  \/ deleteRoles
  \/ deleteResources
  \/ deleteDefaultTenant
  \/ deleteResource
  \/ listResources
  \/ listRoles
  \/ listConditionSets
  \/ listSetRules
  \/ faithfulFetch
  \/ faithfulText

CliSpec == Init /\ [][CliNext]_vars

-----------------------------------------------------------------------------
(* Every operation of the repository, one in a behaviour *)

ProvisionOps == {"setupResources", "setupUserSets", "setupSetRules"}

EveryOp == Ops \cup VerifyOps \cup ProvisionOps

\* one operation is started, against any of the remotes
StartOne == run = "idle" /\ StartOf(EveryOp)

EveryNext ==
  \/ StartOne
  \/ fetchResolves
  \/ fetchRejects
  \/ timerFires
  \/ textResolves
  \/ textRejects
  \/ Tick
  \/ createResource
  \/ createRole
  \/ createUserAttribute
  \/ createUserSet
  \/ createResourceSet
  \/ createSetRule
  \/ listResources
  \/ listRoles
  \/ listUserAttributes
  \/ listConditionSets
  \/ listSetRules
  \/ deleteResource
  \/ deleteRole
  \/ deleteSetRules
  \/ deleteConditionSets
  \/ deleteUserAttributes
  \/ deleteRoles
  \/ deleteResources
  \/ deleteDefaultTenant
  \/ resetAll
  \/ resetRbac
  \/ resetAbac
  \/ resetResources
  \/ resetRoles
  \/ createOrUpdateUserSet
  \/ presetVerifySetup
  \/ verifySetup
  \/ setupResources
  \/ setupUserSets
  \/ setupSetRules
  \/ callPermitApi

EverySpec == Init /\ [][EveryNext]_vars

-----------------------------------------------------------------------------
(* One full reset against a remote that answers anything, its answers kept on record *)

\* a list answered with the items of the remote, or a delete answered with a 2xx status
Done(req, result) ==
  /\ ResponseOk(result.status)
  /\ req.method = "GET" => result.data.kind = "array"

\* response.text() resolves with any body the remote may send; the request is put on
\* record when it is done and every request before it is on record
textOnRecord ==
  /\ call.phase = "text"
  /\ \E b \in Bodies(call.req, call.status, remote) :
       /\ call' = [call EXCEPT !.phase = "done", !.timer = FALSE,
                               !.outcome = [kind |-> "response", status |-> call.status,
                                            body |-> b],
                               !.result = Classify(call.status, b),
                               !.threw = FALSE]
       /\ past' = IF Done(call.req, Classify(call.status, b)) /\ Len(past) = Len(log) - 1
                    THEN Append(past, call.req)
                    ELSE past
  /\ UNCHANGED <<remote, op, run, stack, arg, ret, todo, pending, deleted, log, report,
                 warned, opsRun, out, proc, probe>>

\* the operator starts the one full reset
StartReset == run = "idle" /\ StartOf({"resetAll"})

RecordNext ==
  \/ StartReset
  \/ fetchResolves
  \/ fetchRejects
  \/ timerFires
  \/ textOnRecord
  \/ textRejects
  \/ Tick
  \/ resetAll
  \/ deleteSetRules
  \/ deleteConditionSets
  \/ deleteUserAttributes
  \/ deleteRoles
  \/ deleteResources
  \/ deleteDefaultTenant
  \/ deleteResource
  \/ listResources
  \/ listRoles
  \/ listConditionSets

RecordSpec == Init /\ [][RecordNext]_vars

-----------------------------------------------------------------------------
(* Properties *)

Finished(fns) == op \in fns /\ run = "returned"

\* what the remote did to the last call
Responded == call.outcome.kind = "response"
TransportFailed == call.outcome.kind \in {"network", "abort", "bodyfail", "unsent"}
Is2xx(status) == status \in 200..299

\* C1: a create function returns true exactly when the response has a 2xx status or
\* the status 409, false for another status, a network error or a timeout; on 409 the
\* result of the transport carries success = true and exists = true.
C1_CreateTrueIff2xxOr409 ==
  Finished(CreateOps) =>
    /\ ret.kind = "bool"
    /\ ret.bool = (Responded /\ (Is2xx(call.outcome.status) \/ call.outcome.status = 409))
    /\ (Responded /\ call.outcome.status = 409 =>
          /\ call.result.success
          /\ "exists" \in call.result.has /\ call.result.exists)

C1_Witness ==
  /\ Finished(CreateOps) /\ op = "createSetRule"
  /\ Responded /\ call.outcome.status = 409
  /\ ret.bool

\* C2: a delete function of a repository returns true when the remote answers 404,
\* and false for a status that is neither 2xx nor 404 nor 409 and for a transport
\* failure.
C2_DeleteTrueOn404 ==
  Finished(DeleteOps) =>
    /\ (Responded /\ call.outcome.status = 404 => ret.bool)
    /\ (Responded /\ ~Is2xx(call.outcome.status) /\ call.outcome.status \notin {404, 409}
          => ~ret.bool)
    /\ (TransportFailed => ~ret.bool)

C2_Witness ==
  /\ Finished(DeleteOps) /\ op = "deleteRole"
  /\ Responded /\ call.outcome.status = 404
  /\ ret.bool

\* C3: a list function returns, for every outcome of the transport, a sequence the
\* caller can iterate: never null, never an error, and empty when the call failed.
C3_ListReturnsSequence ==
  /\ (op \in ListOps => run # "threw")
  /\ (Finished(ListOps) =>
        /\ ret.kind = "value" /\ ret.value.kind = "array"
        /\ (~call.result.success => ret.value.items = <<>>))

\* the type tag of the condition set of a key, as the remote lists it
TypeOfKey(k) == (CHOOSE cs \in Range(CondSetOrder) : cs.key = k).type

\* the stage of a reset a request belongs to, resource sets before user sets
StageRank(e) ==
  CASE e.kind = "set_rules" -> 10
    [] e.kind = "condition_sets" ->
         IF e.method # "DELETE" THEN 20
         ELSE IF TypeOfKey(e.key.key) = "resourceset" THEN 21 ELSE 22
    [] e.kind = "attributes" -> 30
    [] e.kind = "roles" -> 40
    [] e.kind = "resources" -> 50
    [] e.kind = "tenants" -> 60

Deletions == {i \in 1..Len(log) : log[i].method = "DELETE"}

\* no request is followed by a request of an earlier stage
InStageOrder == \A i \in 1..(Len(log) - 1) : StageRank(log[i]) <= StageRank(log[i + 1])

InFlight == call.phase \in {"fetch", "text"}

\* C4: in a full reset the deletions are issued in the order set rules, resource
\* sets, user sets, user attribute, roles, resources, tenant, and a request is issued
\* only when the request before it has returned.
C4_ResetAllStageOrder ==
  op = "resetAll" =>
    /\ InStageOrder
    /\ \A i \in 1..Len(log) : ~log[i].overlaps
    /\ InFlight => Len(log) > 0

C4_Witness ==
  /\ Finished({"resetAll"})
  /\ {StageRank(log[i]) : i \in Deletions} = {10, 21, 22, 30, 40, 50, 60}

\* C5: no reset issues a DELETE for the resource key __user or for the role keys
\* admin and viewer, also when the listing holds them.
C5_ProtectedKeysNeverDeleted ==
  op \in ResetOps =>
    \A i \in Deletions :
       /\ (log[i].kind = "resources" => log[i].key.key # "__user")
       /\ (log[i].kind = "roles" => log[i].key.key \notin {"admin", "viewer"})

C5_Witness ==
  /\ Finished({"resetAll"})
  /\ \E i \in Deletions : log[i].kind = "resources" /\ log[i].key.key = "doc"
  /\ \E i \in Deletions : log[i].kind = "roles" /\ log[i].key.key = "editor"
  /\ UserResource \in remote.resources
  /\ {[key |-> "admin"], [key |-> "viewer"]} \subseteq remote.roles

\* C6: createOrUpdateUserSet issues a POST and, whenever the POST is answered with
\* 409, a PATCH on the key of the condition set follows, carrying the condition only.
C6_PatchFollows409 ==
  Finished({"createOrUpdateUserSet"}) =>
    \/ /\ call.req.method = "POST"
       /\ ~(Responded /\ call.outcome.status = 409)
    \/ /\ call.req.method = "PATCH"
       /\ call.req.key = [key |-> arg.key]
       /\ call.req.body = [conditions |-> arg.conditions]
       /\ ret.bool = call.result.success

\* the parsed body of a response: null for an empty body and for text that is no JSON
Parsed(body) == IF body.kind = "json" THEN body.value ELSE Null

Mentions(us, path) == \E i \in 1..Len(us.conditions.allOf) : us.conditions.allOf[i].path = path

\* the report marks the user set as wrong, in its line or in the warning
Flagged(us) ==
  \/ \E i \in 1..Len(report) :
        report[i].key = us.key /\ report[i].status = "(subject.groups - WRONG!)"
  \/ \E i \in 1..Len(warned) : warned[i] = us.key

\* C10: the preset verification flags every user set whose condition contains
\* subject.groups, and flags none that contains user.groups and not subject.groups.
C10_ConditionScopeLint ==
  Finished({"presetVerifySetup"}) =>
    \A i \in 1..Len(pending) :
       /\ (Mentions(pending[i], "subject.groups") => Flagged(pending[i]))
       /\ (Mentions(pending[i], "user.groups") /\ ~Mentions(pending[i], "subject.groups")
             => ~Flagged(pending[i]))

C10_Witness ==
  /\ Finished({"presetVerifySetup"})
  /\ \E i \in 1..Len(pending) : pending[i] = UserSetWrong /\ Flagged(pending[i])
  /\ \E i \in 1..Len(pending) : pending[i] = UserSetBoth /\ Flagged(pending[i])
  /\ \E i \in 1..Len(pending) : pending[i] = UserSetGood /\ ~Flagged(pending[i])

\* the collections the five sections of verifySetup read, in the order of the sections
SectionKinds == <<"roles", "resources", "condition_sets", "condition_sets", "set_rules">>

\* C11: whatever each list call of verifySetup (verify.js) comes to (an array, a failed
\* call, null, or a value on which the section throws), the five sections are attempted
\* in the order roles, resources, user sets, resource sets, set rules: no error leaves
\* the operation, and it ends with one outcome per section and the completion line.
C11_VerifyRunsAllSections ==
  op = "verifySetup" =>
    /\ run # "threw"
    /\ Len(log) <= Len(SectionKinds)
    /\ \A i \in 1..Len(log) : log[i].method = "GET" /\ log[i].kind = SectionKinds[i]
    /\ Len(report) <= Len(log)
    /\ \A i \in 1..Len(report) : report[i].key = Sections[i].name
    /\ run = "returned" =>
         /\ Len(log) = Len(SectionKinds)
         /\ Len(report) = Len(Sections)
         /\ out = <<Line("success", "verifySetup", "end", "")>>

C11_Witness ==
  /\ Finished({"verifySetup"})
  /\ \E i, j, k \in 1..Len(report) :
       /\ i < j /\ j < k
       /\ report[i].status = "none"
       /\ report[j].status = "couldNot"
       /\ report[k].status = "listed"

\* C12: a verification (verifySetup of verify.js, verifySetup of the preset runner)
\* issues GET requests only, and no step taken while it runs changes the remote.
C12_VerifyOnlyReads ==
  /\ [](op \in VerifyOps => \A i \in 1..Len(log) : log[i].method = "GET")
  /\ [][(op \in VerifyOps) => (remote' = remote)]_vars

C12_Witness ==
  /\ Finished(VerifyOps)
  /\ Len(log) >= 2
  /\ remote # EmptyRemote
  /\ report # <<>>

\* the collection each of the six stages of a full reset works on, in stage order
StageKinds == <<"set_rules", "condition_sets", "attributes", "roles", "resources", "tenants">>

\* what a DELETE is aimed at: the key of the path, or the triple in the body
Target(e) == IF e.kind = "set_rules" THEN e.body ELSE e.key

\* C13: in a full reset, for every outcome of the item deletions and every failure of a
\* listing, the reset is not aborted: it returns, all six stages have issued their
\* request, and no item received a second delete attempt.
C13_ResetAllNeverAborts ==
  (op = "resetAll" /\ run \in {"returned", "threw"}) =>
    /\ run = "returned"
    /\ \A k \in 1..Len(StageKinds) : \E i \in 1..Len(log) : log[i].kind = StageKinds[k]
    /\ \A i, j \in Deletions :
         (i < j /\ log[i].kind = log[j].kind) => Target(log[i]) # Target(log[j])

\* C15: a partial reset keeps to its own stages: the ABAC reset issues requests on set
\* rules, condition sets and the user attribute only, in that order; the resources reset
\* issues requests on resources only; the roles reset issues requests on roles only.
C15_PartialResetsKeepToTheirStages ==
  /\ op = "resetAbac" =>
       /\ \A i \in 1..Len(log) : log[i].kind \in {"set_rules", "condition_sets", "attributes"}
       /\ InStageOrder
  /\ op = "resetResources" => \A i \in 1..Len(log) : log[i].kind = "resources"
  /\ op = "resetRoles" => \A i \in 1..Len(log) : log[i].kind = "roles"

C15_Witness ==
  /\ Finished({"resetAbac"})
  /\ {10, 21, 22, 30} \subseteq {StageRank(log[i]) : i \in Deletions}
  /\ Range(RoleOrder) \subseteq remote.roles

Reads == {i \in 1..Len(log) : log[i].method = "GET"}

\* C19 as claimed: every reset ends with a verification read-back, a GET issued after
\* its last delete request.
C19_ResetEndsWithReadBack ==
  (op \in ResetOps /\ run = "returned") =>
    /\ log # <<>>
    /\ log[Len(log)].method = "GET"
    /\ \A i \in Deletions : i < Len(log)

\* C19 as amended: no reset reads the remote back. Its requests are those of its stages
\* only: in stage order, one listing at most per collection, issued before the deletes
\* on that collection; the full and the ABAC reset end with the DELETE of their last
\* stage.
C19_ResetIssuesStageRequestsOnly ==
  op \in ResetOps =>
    /\ InStageOrder
    /\ \A i, j \in Reads : i < j => log[i].kind # log[j].kind
    /\ \A i \in Reads : \A j \in Deletions : log[i].kind = log[j].kind => i < j
    /\ (run = "returned" /\ op \in {"resetAll", "resetAbac"}) =>
         log[Len(log)].method = "DELETE"

C19_Witness ==
  /\ Finished({"resetAll"})
  /\ log[Len(log)].kind = "tenants"
  /\ \E i \in Reads : log[i].kind = "resources"
  /\ \E i \in Deletions : log[i].kind = "resources"

\* the run before the current one, and the current one as it was started
LastRun == past[Len(past) - 1]
ThisRun == past[Len(past)]

\* a full reset that directly follows a full reset
SecondReset == Len(past) >= 2 /\ op = "resetAll" /\ LastRun.op = "resetAll"

RunBeforeLast == past[Len(past) - 2]

\* a createResource that directly follows a createResource of the same key
SecondCreate ==
  /\ Len(past) >= 2
  /\ op = "createResource"
  /\ LastRun.op = "createResource"
  /\ LastRun.arg.key = ThisRun.arg.key

\* a listResources that directly follows two creates of the same key
ListAfterTwoCreates ==
  /\ Len(past) >= 3
  /\ op = "listResources"
  /\ LastRun.op = "createResource"
  /\ RunBeforeLast.op = "createResource"
  /\ LastRun.arg.key = RunBeforeLast.arg.key

\* the positions of a key in a listed array
PositionsOf(k, items) == {i \in 1..Len(items) : items[i].key = k}

\* C18: createResource issues one request and no other, a POST on the resources
\* collection whose body is the given resource with its actions; against a remote that
\* answers 409 for an existing key, a second create of the same key returns true, and
\* a listResources that follows lists exactly one resource of that key.
C18_CreateTwiceListsOne ==
  /\ op = "createResource" =>
       /\ Len(log) <= 1
       /\ run = "returned" => Len(log) = 1
       /\ \A i \in 1..Len(log) :
            /\ log[i].method = "POST"
            /\ log[i].kind = "resources"
            /\ log[i].key = NoKey
            /\ log[i].body = ThisRun.arg
            /\ log[i].body.actions = ThisRun.arg.actions
  /\ (SecondCreate /\ run # "running") => (run = "returned" /\ ret = RetBool(TRUE))
  /\ (ListAfterTwoCreates /\ run # "running") =>
       /\ run = "returned"
       /\ ret.kind = "value"
       /\ ret.value.kind = "array"
       /\ Cardinality(PositionsOf(LastRun.arg.key, ret.value.items)) = 1

\* the resource was absent, was created, was created again with other actions, which
\* the remote answered with a conflict, and the list has returned
C18_Witness ==
  /\ ListAfterTwoCreates
  /\ run = "returned"
  /\ ~HasKey(RunBeforeLast.before, "resources", "doc")
  /\ HasKey(LastRun.before, "resources", "doc")
  /\ LastRun.arg # RunBeforeLast.arg
  /\ LastRun.ret = RetBool(TRUE)
  /\ LastRun.after = LastRun.before

\* the body text contains one of the two keywords
ContainsKeyword(text) ==
  \/ StrIncludes(Chars(text), <<"h","e","a","l","t","h","y">>)
  \/ StrIncludes(Chars(text), <<"o","k">>)

\* C17: checkEdgePdpHealth never throws; when the response and its body arrived it
\* returns true exactly when the status is 2xx or the body contains `healthy` or `ok`;
\* when the fetch or the reading of the body failed, or the 5000 ms timer aborted the
\* fetch, it returns false; and the abort happens no earlier than 5000 ms.
C17_HealthProbeValue ==
  /\ ~probe.threw
  /\ probe.phase = "done" =>
       /\ probe.returned
       /\ probe.failure = "" =>
            (probe.value <=> (ResponseOk(probe.status) \/ ContainsKeyword(probe.text)))
       /\ probe.failure \in {"network", "body", "abort"} => ~probe.value
       /\ probe.failure = "abort" => probe.elapsed >= 5000

\* the probe has returned true for a status that is not 2xx on the strength of a
\* keyword inside a longer word
C17_Witness ==
  /\ probe.phase = "done"
  /\ probe.returned
  /\ probe.value
  /\ probe.status = 503
  /\ probe.text = "broken"

\* an entry point started without the credential: nothing was requested, asked or
\* dispatched, and once it is over it has exited with 1 on the configuration error
FailsFirst(entry) ==
  (proc.entry = entry /\ ~proc.apiKey) =>
    /\ log = <<>>
    /\ proc.prompts = <<>>
    /\ proc.modes = <<>>
    /\ Len(stack) <= 1
    /\ run # "running" => (proc.exit = 1 /\ proc.error = "config")

\* the main command line fails first when the credential is absent
MainCliFailsFirst == FailsFirst("index")

\* C16: started without the API key, the main command line and the preset runner
\* each end with the configuration error and exit code 1, before any HTTP request,
\* any prompt and any mode.
C16_NoCredentialFailsFirst == FailsFirst("index") /\ FailsFirst("horaion")

\* the mode the main command line is to dispatch for a set of options
ExpectedMain(flags) ==
  CASE "verify" \in flags -> "verify"
    [] "verify" \notin flags /\ "reset" \in flags -> "reset"
    [] {"verify", "reset"} \cap flags = {} /\ "resetResources" \in flags -> "resetResources"
    [] {"verify", "reset", "resetResources"} \cap flags = {} /\ "resetRoles" \in flags ->
         "resetRoles"
    [] {"verify", "reset", "resetResources", "resetRoles"} \cap flags = {}
         /\ "resetAbac" \in flags -> "resetAbac"
    [] flags = {} -> "menu"

\* the mode the preset runner is to dispatch for a set of options
ExpectedPreset(flags) ==
  CASE "verify" \in flags -> "verify"
    [] "verify" \notin flags /\ "addUserSet" \in flags -> "addUserSet"
    [] {"verify", "addUserSet"} \cap flags = {} /\ "userSets" \in flags -> "userSetsOnly"
    [] flags = {} -> "full"

\* the function that carries out a mode of the main command line
ExpectedRunner(mode) ==
  CASE mode = "verify" -> "runVerify"
    [] mode = "reset" -> "runResetAll"
    [] mode = "resetResources" -> "runResetResources"
    [] mode = "resetRoles" -> "runResetRoles"
    [] mode = "resetAbac" -> "runResetAbac"
    [] mode = "menu" -> "showInteractiveMenu"

\* the main command line, past its start with the credential, has dispatched the one
\* expected mode: its function is the one main awaits, verify asks nothing, a reset
\* asks for confirmation first, the menu asks for a selection first
MainDispatchesOneMode ==
  (proc.entry = "index" /\ proc.apiKey /\ ~At("main", "load")) =>
    /\ proc.modes = <<ExpectedMain(proc.flags)>>
    /\ Len(stack) >= 2 => stack[2].fn = ExpectedRunner(ExpectedMain(proc.flags))
    /\ ExpectedMain(proc.flags) = "verify" =>
         (proc.prompts = <<>> /\ \A i \in 1..Len(log) : log[i].method = "GET")
    /\ (ExpectedMain(proc.flags) \notin {"verify", "menu"} /\ proc.prompts # <<>>) =>
         proc.prompts = <<"confirm">>
    /\ (ExpectedMain(proc.flags) = "menu" /\ proc.prompts # <<>>) =>
         proc.prompts[1] = "select"
    /\ proc.prompts = <<>> => log = <<>> \/ ExpectedMain(proc.flags) = "verify"

\* the preset runner, past its start with the credential, has dispatched the one
\* expected mode
PresetDispatchesOneMode ==
  (proc.entry = "horaion" /\ proc.apiKey /\ ~At("presetMain", "load")) =>
    proc.modes = <<ExpectedPreset(proc.flags)>>

\* C20: every invocation of the main command line dispatches exactly one mode (verify,
\* else full reset, else resources reset, else roles reset, else ABAC reset, the menu
\* without options), and every invocation of the preset runner dispatches exactly one
\* mode (verify, else add-custom-user-set, else user-sets-only, else full provisioning).
C20_DispatchesOneMode == MainDispatchesOneMode /\ PresetDispatchesOneMode

\* C21: every call of permitApi is bounded by its timeout: a call that waits for the
\* response, or for the body of a response whose status has arrived, returns in the
\* end, also when the remote never sends what the call waits for, because the clock
\* runs and the timer that is due fires.
C21_CallBoundedByTimeout == (call.phase \in {"fetch", "text"}) ~> (call.phase = "done")

\* C22: in every operation (create, list, delete, both verifications, every reset, the
\* stages of the preset provisioning) at most one request is in flight: no request is
\* issued while the request before it waits for its response or for its body, and a
\* request in flight belongs to the running operation.
C22_OneRequestInFlight ==
  /\ \A i \in 1..Len(log) : ~log[i].overlaps
  /\ InFlight => (run = "running" /\ Len(log) > 0 /\ log[Len(log)].fn = call.fn)

\* the two nested loops of setupSetRules have issued their three creates one by one
C22_Witness ==
  /\ Finished({"setupSetRules"})
  /\ Len(log) = 3
  /\ \A i \in 1..Len(log) : log[i].method = "POST" /\ log[i].kind = "set_rules"
  /\ log[3].body.permission = "company:read"


\* a reset stage resuming after the DELETE of one of its items was answered with status s
StageAnswered(fn, s) ==
  /\ run = "running" /\ Len(stack) > 0 /\ Top.fn = fn
  /\ Top.pc \in {"deleting", "deletingResourceSet", "deletingUserSet"}
  /\ Returned(fn)
  /\ StatusIs(call.result, s)

\* C23: in every reset stage an item whose DELETE is answered 404 is not logged as a
\* failure, and the set-rules stage counts it among the deleted rules of its summary
C23_NotFoundCountsAsDeleted ==
  [][\A fn \in {"deleteSetRules", "deleteConditionSets", "deleteUserAttributes",
                "deleteRoles", "deleteDefaultTenant"} :
       StageAnswered(fn, 404) =>
         /\ \A i \in 1..Len(out') : out'[i].level \notin {"warning", "error"}
         /\ (fn = "deleteSetRules") => (deleted' = deleted + 1)]_vars


\* the requests a reset has sent about user attributes
AttributeRequests == SelectSeq(log, LAMBDA e : e.kind = "attributes")

\* C24: the user-attribute stage of a reset issues exactly one DELETE, for the key
\* "department", and never lists the attributes; no step of a reset removes another
\* attribute from the remote, so every other attribute survives a full reset
C24_OneFixedAttributeDelete ==
  /\ [](op \in ResetOps =>
          /\ Len(AttributeRequests) <= 1
          /\ \A i \in 1..Len(AttributeRequests) :
               /\ AttributeRequests[i].method = "DELETE"
               /\ AttributeRequests[i].key = [key |-> "department"]
               /\ AttributeRequests[i].fn = "deleteUserAttributes"
          /\ Finished({"resetAll", "resetAbac"}) => Len(AttributeRequests) = 1)
  /\ [][(op \in ResetOps) =>
          (\A a \in remote.attributes : a.key # "department" => a \in remote'.attributes)]_vars

\* a full reset has returned after every delete it asked for took effect: of the remote
\* that held the attributes department and team, only team and the protected entities
\* are left
C24_Witness ==
  /\ Finished({"resetAll"})
  /\ Len(AttributeRequests) = 1
  /\ remote = RemoteOf({UserResource}, {[key |-> "admin"], [key |-> "viewer"]},
                       {[key |-> "team"]}, {}, {}, {})


\* the place of a request in full provisioning: resources, user attributes, user sets,
\* set rules, then the reads of the verification
ProvisionRank(e) ==
  CASE e.method = "GET" -> 5
    [] e.method # "GET" /\ e.kind = "resources" -> 1
    [] e.method # "GET" /\ e.kind = "attributes" -> 2
    [] e.method # "GET" /\ e.kind = "condition_sets" -> 3
    [] e.method # "GET" /\ e.kind = "set_rules" -> 4
    [] OTHER -> 0

\* the requests of rank n sent so far
Ranked(n) == SelectSeq(log, LAMBDA e : ProvisionRank(e) = n)

\* C25: full preset provisioning issues its requests in dependency order: every
\* resource create, then the user-attribute creates, then every user-set create, then
\* every set-rule create, then the verification reads; when it is over all of them
\* were issued
C25_ProvisioningInDependencyOrder ==
  (proc.entry = "horaion" /\ proc.apiKey /\ PresetMode(proc.flags) = "full") =>
    /\ \A i \in 1..(Len(log) - 1) : ProvisionRank(log[i]) <= ProvisionRank(log[i + 1])
    /\ \A i \in 1..Len(log) : ProvisionRank(log[i]) > 0
    /\ run = "exited" =>
         /\ proc.exit = 0
         /\ Len(Ranked(1)) = Len(RESOURCES)
         /\ Len(Ranked(2)) > 0
         /\ Len(Ranked(3)) = Len(USER_SETS)
         /\ Len(Ranked(4)) = Len(RuleCalls(SET_RULES))
         /\ Len(Ranked(5)) > 0


\* a DELETE on a collection has been sent and the remote has not answered it yet
Deleting(kind) ==
  call.phase = "fetch" /\ call.req.method = "DELETE" /\ call.req.kind = kind

\* a set rule names a condition set as its user set or as its resource set
RuleNames(rule, key) == rule.user_set = key \/ rule.resource_set = key

\* the resource of a permission "resource:action"
ResourceOfPermission(permission) == IF permission = "doc:read" THEN "doc" ELSE ""

\* the resource a condition set is defined on: the user resource for a user set, the
\* resource of its resource_id for a resource set
ResourceOfSet(cs) == IF cs.type = CONDITION_SET_TYPES.USER_SET THEN "__user" ELSE "doc"

\* the entity a DELETE in flight addresses is referenced by nothing on the remote
NothingRefersToDeleted ==
  /\ Deleting("condition_sets") =>
       \A rule \in remote.set_rules : ~RuleNames(rule, call.req.key.key)
  /\ Deleting("resources") =>
       /\ \A rule \in remote.set_rules :
            ResourceOfPermission(rule.permission) # call.req.key.key
       /\ \A cs \in remote.condition_sets : ResourceOfSet(cs) # call.req.key.key

\* every request before the one in flight was answered: each list with the items of the
\* remote, each delete with a 2xx status
EarlierRequestsDone == Len(past) = Len(log) - 1

ResetRunners == {"runResetAll", "runResetAbac", "runResetResources", "runResetRoles"}

\* a reset of the main command line is under way
ResetRunning == \E i \in 1..Len(stack) : stack[i].fn \in ResetRunners

\* the operator's last answer to the confirmation of a reset was yes
LastAnswerYes == proc.confirmed # <<>> /\ proc.confirmed[Len(proc.confirmed)]

\* C27: no reset started from the main command line, by option or from the menu, issues
\* a request or changes the remote unless the operator answered yes to its confirmation;
\* the step in which the operator declines issues nothing and leaves the reset, and as
\* long as no answer was yes every request is a read of the verification
C27_NoResetUnlessConfirmed ==
  /\ [][(proc.entry = "index" /\ ResetRunning /\ (log' # log \/ remote' # remote)) =>
          LastAnswerYes]_vars
  /\ [][(proc.entry = "index" /\ Len(proc'.confirmed) > Len(proc.confirmed)
           /\ ~proc'.confirmed[Len(proc'.confirmed)]) =>
          (log' = log /\ remote' = remote /\ call' = call /\ ~ResetRunning')]_vars
  /\ []((proc.entry = "index" /\ \A i \in 1..Len(proc.confirmed) : ~proc.confirmed[i]) =>
          /\ remote \in InitRemotes
          /\ \A i \in 1..Len(log) : log[i].method = "GET"
          /\ ("verify" \notin proc.flags /\ MainMode(proc.flags) # "menu") => log = <<>>)

\* the full reset asked for by option was declined: the process has ended without a
\* request and the remote still holds everything
C27_Witness ==
  /\ proc.entry = "index"
  /\ proc.modes = <<"reset">>
  /\ proc.confirmed = <<FALSE>>
  /\ run = "exited"
  /\ proc.exit = 0
  /\ log = <<>>
  /\ remote = FullRemote


\* the remote's answer to a DELETE says that the entity is not there any more
SaysAbsent(result) == ResponseOk(result.status) \/ StatusIs(result, 404)

\* a repository delete resumes after its DELETE and returns true
ReturnsTrue(fn) == At(fn, "await") /\ Returned(fn) /\ ret'.bool

\* a reset stage resumes after the DELETE of an item and reports the item as deleted
ReportsDeleted(fn) ==
  /\ \E s \in Statuses : StageAnswered(fn, s)
  /\ \/ \E i \in 1..Len(out') : out'[i].what = "deleted"
     \/ deleted' > deleted

\* C28: whenever deleteResource or deleteRole returns true, or a reset stage reports an
\* item as deleted, the remote has answered that the entity is gone (2xx) or was not
\* there (404); a DELETE rejected with 409 is not reported as a deletion
C28_DeletedMeansAbsent ==
  [][/\ \A fn \in DeleteOps : ReturnsTrue(fn) => SaysAbsent(call.result)
     /\ \A fn \in {"deleteSetRules", "deleteConditionSets", "deleteUserAttributes",
                   "deleteRoles", "deleteDefaultTenant"} :
          ReportsDeleted(fn) => SaysAbsent(call.result)]_vars


\* C29: when the preset verification has returned, a user set carries the label
\* "(subject.groups - WRONG!)" in the listing if and only if it is in the list of the
\* warning about user sets that use subject.groups
C29_LabelAgreesWithWarning ==
  Finished({"presetVerifySetup"}) =>
    \A i \in 1..Len(report) :
       (report[i].status = "(subject.groups - WRONG!)")
         <=> (\E j \in 1..Len(warned) : warned[j] = report[i].key)


\* permitApi has returned with its timer cleared
CallTimerCleared == (call.phase = "done") => ~call.timer

\* C30: after permitApi or checkEdgePdpHealth has returned, on every path (success,
\* HTTP error, network error, abort), the timer the call armed is cleared
C30_TimerClearedOnReturn ==
  /\ CallTimerCleared
  /\ (probe.phase = "done") => ~probe.timer

====
